---- MODULE Spec2Model ----
(***************************************************************************)
(* Model of the quantum memory layer of the CLI:                            *)
(*   - VariableBarrierController (src/src/quantum/vbc.ts): the budgeted     *)
(*     gate with its tick phases, decay and admit/throttle/defer decision;  *)
(*   - WormholeNetwork (src/src/quantum/wormhole.ts) over SuperarrayMemory  *)
(*     (src/unnamed/part_002): the edge lists and the eight navigation      *)
(*     strategies.                                                          *)
(*                                                                          *)
(* Numbers.  JavaScript numbers are IEEE doubles.  Magnitudes, budgets and  *)
(* loads are modelled in thousandths (0.3 is 300), phase multipliers in     *)
(* tenths (1.5 is 15), decay rates in hundredths (0.85 is 85), edge        *)
(* strengths in thousandths.  A product or quotient that is not a whole     *)
(* number of thousandths is rounded to the nearest one, as a double rounds  *)
(* to the nearest double.                                                   *)
(***************************************************************************)
EXTENDS Integers, Sequences, FiniteSets, TLC

VARIABLES
    kernel,      \* VariableBarrierController.kernel
    vbcCall,     \* the latest call on the controller: arguments, loads before, result
    proposed,    \* number of deltas handed to gate so far (bounds the model)
    adjusted,    \* number of setSpin, adjustBudget and adjustDecay calls so far
    atoms,       \* SuperarrayMemory.atoms: the stored records in insertion order
    dimensionIndex, \* SuperarrayMemory.dimensionIndex: key -> uids in insertion order
    memCall,     \* the latest call on the store: arguments, state before, result
    stored,      \* number of store calls by outside callers so far (bounds the model)
    wormholes,   \* WormholeNetwork.wormholes: uid -> list of outgoing edges
    navCall,     \* the latest navigate call: arguments and result
    created,     \* number of edges created so far: the serial of the next edge
    discovered,  \* number of discoverWormholes calls so far (bounds the model)
    navigated,   \* number of navigate calls so far (bounds the model)
    orchCall,    \* the latest process call of the coordinator: request, calls made
    processed    \* number of process calls so far (bounds the model)

vbcVars == <<kernel, vbcCall, proposed, adjusted>>
memVars == <<atoms, dimensionIndex, memCall, stored>>
netVars == <<wormholes, navCall, created, discovered, navigated>>
orchVars == <<orchCall, processed>>
vars == <<kernel, vbcCall, proposed, adjusted, atoms, dimensionIndex, memCall, stored,
          wormholes, navCall, created, discovered, navigated, orchCall, processed>>

\* ------------------------------------------------------------------------
\* Bounds of the model
\* ------------------------------------------------------------------------

\* deltas proposed to gate over one run, over all its gate calls
MaxDeltas == 3
\* tick calls over one run
MaxTicks == 2
\* createWormhole calls over one run
MaxWormholes == 3
\* navigate calls over one run
MaxNavigations == 1
\* store calls by outside callers over one run
MaxStores == 3
\* discoverWormholes calls over one run
MaxDiscoveries == 1
\* setSpin, adjustBudget and adjustDecay calls over one run
MaxAdjustments == 1
\* deltas proposed to gate over one run of the controller with all its operations
CtlDeltas == 1
\* process calls of the coordinator over one run
MaxRequests == 2

\* ------------------------------------------------------------------------
\* Helpers
\* ------------------------------------------------------------------------

Abs(x) == IF x < 0 THEN 0 - x ELSE x

\* n / d rounded to the nearest integer (half away from zero), d > 0
RoundDiv(n, d) ==
    IF n >= 0 THEN (2 * n + d) \div (2 * d)
    ELSE 0 - ((2 * (0 - n) + d) \div (2 * d))

Max(x, y) == IF x >= y THEN x ELSE y

Min(x, y) == IF x <= y THEN x ELSE y

RECURSIVE SumMagnitudes(_)
SumMagnitudes(ds) ==
    IF ds = <<>> THEN 0 ELSE Head(ds).magnitude + SumMagnitudes(Tail(ds))

OnAxis(ds, a) == SelectSeq(ds, LAMBDA d : d.axis = a)

Ids(ds) == {ds[i].id : i \in 1..Len(ds)}

Range(seq) == {seq[i] : i \in 1..Len(seq)}

\* array.sort((a, b) => b.score - a.score): stable, descending
RECURSIVE SortByScore(_)
SortByScore(scored) ==
    IF scored = <<>> THEN <<>>
    ELSE LET h == Head(scored)
             rest == SortByScore(Tail(scored))
             n == Cardinality({i \in 1..Len(rest) : rest[i].score > h.score})
         IN  SubSeq(rest, 1, n) \o <<h>> \o SubSeq(rest, n + 1, Len(rest))

\* ========================================================================
\* VariableBarrierController
\* ========================================================================

TickPhase == {"capture", "clean", "bridge", "commit"}

\* TICK_PHASES: capMultipliers are keyed by the names written in the source
TICK_PHASES ==
    [capture |->
        [capMultipliers |->
            [semantic |-> 15, entity |-> 13, temporal |-> 12, spatial |-> 12,
             pragmatics |-> 11],
         admissiblePerformers |-> <<"Prototype", "Explore", "Scan", "Observe">>],
     clean |->
        [capMultipliers |->
            [structural |-> 14, computational |-> 13, aesthetic |-> 12,
             epistemic |-> 11],
         admissiblePerformers |-> <<"Refine", "Edit", "Denoise", "Benchmark">>],
     bridge |->
        [capMultipliers |->
            [relation |-> 15, causality |-> 14, alignment |-> 13, epistemic |-> 12],
         admissiblePerformers |-> <<"Align", "Calibrate", "Normalize", "Attune">>],
     commit |->
        [capMultipliers |->
            [actionability |-> 16, alignment |-> 14, epistemic |-> 13,
             pragmatics |-> 12],
         admissiblePerformers |-> <<"Commit", "Validate", "Explain", "Choose">>]]

\* initializeAxes: the six registered axes
initializeAxes ==
    [semantics |-> [budget |-> 300, load |-> 0, decay |-> 85],
     relations |-> [budget |-> 300, load |-> 0, decay |-> 85],
     evidence  |-> [budget |-> 250, load |-> 0, decay |-> 90],
     context   |-> [budget |-> 200, load |-> 0, decay |-> 90],
     action    |-> [budget |-> 250, load |-> 0, decay |-> 85],
     affect    |-> [budget |-> 150, load |-> 0, decay |-> 95]]

AxisNames == DOMAIN initializeAxes

\* the axes in the order in which initializeAxes sets them in the Map
AxisOrder == <<"semantics", "relations", "evidence", "context", "action", "affect">>

\* initializeAxes: axis.dimensions, which no operation changes
AxisDimensions ==
    [semantics |-> <<"semantic", "embedding", "computational">>,
     relations |-> <<"relation", "causality", "entity">>,
     evidence  |-> <<"epistemic", "rhetorical", "alignment">>,
     context   |-> <<"temporal", "spatial", "chunking">>,
     action    |-> <<"actionability", "pragmatics", "structural">>,
     affect    |-> <<"sentiment", "aesthetic">>]

\* constructor defaults
DefaultMaxConcurrentAxes == 4
DefaultTotalBudget == 700

\* the configurations the controller is constructed with
Configs ==
    {[maxConcurrentAxes |-> DefaultMaxConcurrentAxes, totalBudget |-> DefaultTotalBudget],
     [maxConcurrentAxes |-> 1, totalBudget |-> 200]}

\* the deltas callers propose; "ghost" is not a registered axis
DeltaInputs ==
    {[axis |-> "semantics", magnitude |-> 150,  direction |-> "increase"],
     [axis |-> "semantics", magnitude |-> 400,  direction |-> "increase"],
     [axis |-> "semantics", magnitude |-> 500,  direction |-> "increase"],
     [axis |-> "semantics", magnitude |-> -100, direction |-> "increase"],
     [axis |-> "affect",    magnitude |-> 150,  direction |-> "decrease"],
     [axis |-> "ghost",     magnitude |-> 150,  direction |-> "increase"]}

\* phaseConfig.capMultipliers[delta.axis] ?? 1.0
CapMultiplier(phase, axisName) ==
    LET caps == TICK_PHASES[phase].capMultipliers
    IN  IF axisName \in DOMAIN caps THEN caps[axisName] ELSE 10

\* getCurrentLoads
getCurrentLoads(axes) == [a \in DOMAIN axes |-> axes[a].load]

\* gate, lines 229-233: delta.magnitude <= effectiveBudget - axis.load
AxisAdmits_Strict(axis, delta, phase) ==
    LET effectiveBudget == (axis.budget * CapMultiplier(phase, delta.axis)) \div 10
        availableBudget == effectiveBudget - axis.load
    IN  delta.magnitude < availableBudget

\* a variant that compares the magnitude with the whole effective budget
AxisAdmits_IgnoresLoad(axis, delta, phase) ==
    LET effectiveBudget == (axis.budget * CapMultiplier(phase, delta.axis)) \div 10
    IN  delta.magnitude <= effectiveBudget

AxisAdmits(axis, delta, phase) ==
    LET effectiveBudget == (axis.budget * CapMultiplier(phase, delta.axis)) \div 10
        availableBudget == effectiveBudget - axis.load
    IN  delta.magnitude <= availableBudget

\* a variant that defers on the number of active axes alone
TooManyAxes_AnyAxis(activeAxes, delta, maxConcurrentAxes) ==
    Cardinality(activeAxes) >= maxConcurrentAxes

\* gate, line 235: too many concurrent axes
TooManyAxes(activeAxes, delta, maxConcurrentAxes) ==
    /\ Cardinality(activeAxes) >= maxConcurrentAxes
    /\ delta.axis \notin activeAxes

\* gate, line 238: the delta fits the total budget
TotalAdmits_Unchecked(totalMovement, delta, totalBudget) == TRUE

TotalAdmits(totalMovement, delta, totalBudget) ==
    totalMovement + delta.magnitude <= totalBudget

\* gate, lines 224-226: unknown axis, continue
DropUnknown_Throttles(st, delta) ==
    [st EXCEPT !.throttled = Append(@, delta)]

DropUnknown(st, delta) == st

\* gate, lines 240-243: admit the delta
Admit(st, delta) ==
    [st EXCEPT !.admitted = Append(@, delta),
               !.axes[delta.axis].load = @ + delta.magnitude,
               !.totalMovement = @ + delta.magnitude,
               !.activeAxes = @ \cup {delta.axis}]

\* gate, line 237
Defer(st, delta) == [st EXCEPT !.deferred = Append(@, delta)]

\* gate, lines 246 and 250
Throttle_Charges(st, delta) ==
    [st EXCEPT !.throttled = Append(@, delta),
               !.axes[delta.axis].load = @ + delta.magnitude]

Throttle(st, delta) == [st EXCEPT !.throttled = Append(@, delta)]

\* the loop body of gate for one delta; st carries the axes and the locals
\* admittedDeltas, throttledDeltas, deferredDeltas, totalMovement, activeAxes
GateStep(st, delta, phase, maxConcurrentAxes, totalBudget) ==
    IF delta.axis \notin DOMAIN st.axes
    THEN DropUnknown(st, delta)
    ELSE IF AxisAdmits(st.axes[delta.axis], delta, phase)
         THEN IF TooManyAxes(st.activeAxes, delta, maxConcurrentAxes)
              THEN Defer(st, delta)
              ELSE IF TotalAdmits(st.totalMovement, delta, totalBudget)
                   THEN Admit(st, delta)
                   ELSE Throttle(st, delta)
         ELSE Throttle(st, delta)

RECURSIVE GateLoop(_, _, _, _, _)
GateLoop(st, deltas, phase, maxConcurrentAxes, totalBudget) ==
    IF deltas = <<>>
    THEN st
    ELSE GateLoop(GateStep(st, Head(deltas), phase, maxConcurrentAxes, totalBudget),
                  Tail(deltas), phase, maxConcurrentAxes, totalBudget)

\* new VariableBarrierController(config); currentSpin is the set holding the
\* spin object, empty for null
VbcInit ==
    /\ \E config \in Configs :
          kernel = [axes |-> initializeAxes,
                    maxConcurrentAxes |-> config.maxConcurrentAxes,
                    totalBudget |-> config.totalBudget,
                    currentPhase |-> "capture",
                    currentSpin |-> {},
                    tickCount |-> 0]
    /\ vbcCall = [op |-> "new"]
    /\ proposed = 0
    /\ adjusted = 0
    /\ atoms = <<>>
    /\ dimensionIndex = <<>>
    /\ memCall = [op |-> "new"]
    /\ stored = 0
    /\ wormholes = <<>>
    /\ navCall = [op |-> "new"]
    /\ created = 0
    /\ discovered = 0
    /\ navigated = 0
    /\ orchCall = [op |-> "new"]
    /\ processed = 0

\* a variant in which a tick without a phase moves on to the next phase
PhaseAfter_Advances(currentPhase, arg) ==
    IF arg # "none" THEN arg
    ELSE CASE currentPhase = "capture" -> "clean"
           [] currentPhase = "clean" -> "bridge"
           [] currentPhase = "bridge" -> "commit"
           [] OTHER -> "capture"

\* tick, lines 190-192: if (phase) this.kernel.currentPhase = phase
PhaseAfter(currentPhase, arg) == IF arg # "none" THEN arg ELSE currentPhase

\* a variant that decays loaded axes only when the tick passes a phase
DecayLoad_OnPhaseOnly(axis, arg) ==
    IF arg # "none" THEN RoundDiv(axis.load * axis.decay, 100) ELSE axis.load

\* tick, line 196: axis.load *= axis.decay
DecayLoad(axis, arg) == RoundDiv(axis.load * axis.decay, 100)

\* tick(phase?): arg is a phase or "none"
Tick ==
    /\ kernel.tickCount < MaxTicks
    /\ \E arg \in TickPhase \cup {"none"} :
          LET phase == PhaseAfter(kernel.currentPhase, arg)
              axes == [a \in DOMAIN kernel.axes |->
                          [kernel.axes[a] EXCEPT !.load = DecayLoad(kernel.axes[a], arg)]]
          IN  /\ kernel' = [kernel EXCEPT !.currentPhase = phase,
                                          !.axes = axes,
                                          !.tickCount = @ + 1]
              /\ vbcCall' = [op |-> "tick",
                             arg |-> arg,
                             before |-> kernel,
                             result |-> [phase |-> phase,
                                         tickCount |-> kernel.tickCount + 1,
                                         loads |-> getCurrentLoads(axes),
                                         admissiblePerformers |->
                                             TICK_PHASES[phase].admissiblePerformers]]
    /\ UNCHANGED <<orchVars, proposed, adjusted, memVars, netVars>>

\* gate(proposedDeltas): id is the position of the delta object in the input
Gate ==
    /\ \E n \in 0..(MaxDeltas - proposed) :
       \E f \in [1..n -> DeltaInputs] :
          LET deltas == [i \in 1..n |->
                            [id |-> i, axis |-> f[i].axis,
                             magnitude |-> f[i].magnitude,
                             direction |-> f[i].direction]]
              st == GateLoop([axes |-> kernel.axes,
                              admitted |-> <<>>, throttled |-> <<>>,
                              deferred |-> <<>>, totalMovement |-> 0,
                              activeAxes |-> {}],
                             deltas, kernel.currentPhase,
                             kernel.maxConcurrentAxes, kernel.totalBudget)
          IN  /\ kernel' = [kernel EXCEPT !.axes = st.axes]
              /\ vbcCall' = [op |-> "gate",
                             deltas |-> deltas,
                             before |-> kernel,
                             result |-> [admitted |-> st.admitted,
                                         throttled |-> st.throttled,
                                         deferred |-> st.deferred,
                                         totalMovement |-> st.totalMovement,
                                         activeAxes |-> st.activeAxes]]
              /\ proposed' = proposed + n
    /\ UNCHANGED <<orchVars, adjusted, memVars, netVars>>

\* the spin vectors callers set: weights per dimension, in hundredths
SpinInputs ==
    {[semantic |-> 90, sentiment |-> 20],
     [temporal |-> 80, relation |-> 80, aesthetic |-> 40]}

\* setSpin(spin)
SetSpin ==
    /\ adjusted < MaxAdjustments
    /\ \E spin \in SpinInputs :
          /\ kernel' = [kernel EXCEPT !.currentSpin = {spin}]
          /\ vbcCall' = [op |-> "setSpin", spin |-> spin, before |-> kernel]
    /\ adjusted' = adjusted + 1
    /\ UNCHANGED <<orchVars, proposed, memVars, netVars>>

\* getSpin()
GetSpin ==
    /\ vbcCall' = [op |-> "getSpin", before |-> kernel, result |-> kernel.currentSpin]
    /\ UNCHANGED <<orchVars, kernel, proposed, adjusted, memVars, netVars>>

\* getSpinAlignedAxes, lines 283-286: the sum of spin[dim] ?? 0
RECURSIVE SumWeights(_, _)
SumWeights(spin, dimensions) ==
    IF dimensions = <<>> THEN 0
    ELSE (IF Head(dimensions) \in DOMAIN spin THEN spin[Head(dimensions)] ELSE 0)
         + SumWeights(spin, Tail(dimensions))

\* getSpinAlignedAxes: the axis names by descending alignment; an axis has
\* two or three dimensions, so six times the alignment is a whole number
getSpinAlignedAxes(k) ==
    IF k.currentSpin = {} THEN <<>>
    ELSE LET spin == CHOOSE sp \in k.currentSpin : TRUE
             aligned == SortByScore(
                 [i \in 1..Len(AxisOrder) |->
                     [axis |-> AxisOrder[i],
                      score |-> (6 * SumWeights(spin, AxisDimensions[AxisOrder[i]]))
                                \div Len(AxisDimensions[AxisOrder[i]])]])
         IN  [i \in 1..Len(aligned) |-> aligned[i].axis]

GetSpinAlignedAxes ==
    /\ vbcCall' = [op |-> "getSpinAlignedAxes", before |-> kernel,
                   result |-> getSpinAlignedAxes(kernel)]
    /\ UNCHANGED <<orchVars, kernel, proposed, adjusted, memVars, netVars>>

\* a variant that hands out the gate's own table of loads
ReturnsNewObject_Shared == FALSE

\* getCurrentLoads, line 305: the loads are copied into a new object
ReturnsNewObject == TRUE

\* getCurrentLoads()
GetCurrentLoads ==
    /\ vbcCall' = [op |-> "getCurrentLoads", before |-> kernel,
                   result |-> getCurrentLoads(kernel.axes)]
    /\ UNCHANGED <<orchVars, kernel, proposed, adjusted, memVars, netVars>>

\* the loads a caller writes into the map getCurrentLoads returned
WrittenLoads == {999}

\* the caller of getCurrentLoads assigns to an entry of the returned map
ChangeReturnedLoads ==
    /\ vbcCall.op = "getCurrentLoads"
    /\ \E a \in {"semantics", "affect"}, v \in WrittenLoads :
          /\ vbcCall' = [op |-> "changeReturnedLoads", before |-> kernel,
                         result |-> [vbcCall.result EXCEPT ![a] = v]]
          /\ kernel' = IF ReturnsNewObject THEN kernel
                       ELSE [kernel EXCEPT !.axes[a].load = v]
    /\ UNCHANGED <<orchVars, proposed, adjusted, memVars, netVars>>

\* getStatus()
GetStatus ==
    /\ vbcCall' = [op |-> "getStatus", before |-> kernel,
                   result |-> [phase |-> kernel.currentPhase,
                               tickCount |-> kernel.tickCount,
                               loads |-> getCurrentLoads(kernel.axes),
                               spin |-> kernel.currentSpin,
                               spinAlignedAxes |-> getSpinAlignedAxes(kernel),
                               totalBudget |-> kernel.totalBudget,
                               maxConcurrentAxes |-> kernel.maxConcurrentAxes]]
    /\ UNCHANGED <<orchVars, kernel, proposed, adjusted, memVars, netVars>>

\* the axis names callers adjust; "ghost" is not a registered axis
AdjustAxisInputs == {"semantics", "ghost"}

\* the budgets callers set, in thousandths: above 1 and below 0
BudgetInputs == {1500, -100}

\* the decay rates callers set, in hundredths: above 1 and below 0
DecayInputs == {150, -10}

\* adjustBudget(axis, newBudget): Math.max(0, Math.min(1, newBudget))
adjustBudget(k, axis, newBudget) ==
    IF axis \in DOMAIN k.axes
    THEN [k EXCEPT !.axes[axis].budget = Max(0, Min(1000, newBudget))]
    ELSE k

AdjustBudget ==
    /\ adjusted < MaxAdjustments
    /\ \E axis \in AdjustAxisInputs, newBudget \in BudgetInputs :
          /\ kernel' = adjustBudget(kernel, axis, newBudget)
          /\ vbcCall' = [op |-> "adjustBudget", axis |-> axis, value |-> newBudget,
                         before |-> kernel]
    /\ adjusted' = adjusted + 1
    /\ UNCHANGED <<orchVars, proposed, memVars, netVars>>

\* adjustDecay(axis, newDecay): Math.max(0, Math.min(1, newDecay))
adjustDecay(k, axis, newDecay) ==
    IF axis \in DOMAIN k.axes
    THEN [k EXCEPT !.axes[axis].decay = Max(0, Min(100, newDecay))]
    ELSE k

AdjustDecay ==
    /\ adjusted < MaxAdjustments
    /\ \E axis \in AdjustAxisInputs, newDecay \in DecayInputs :
          /\ kernel' = adjustDecay(kernel, axis, newDecay)
          /\ vbcCall' = [op |-> "adjustDecay", axis |-> axis, value |-> newDecay,
                         before |-> kernel]
    /\ adjusted' = adjusted + 1
    /\ UNCHANGED <<orchVars, proposed, memVars, netVars>>

\* ========================================================================
\* SuperarrayMemory
\* ========================================================================

\* uids in the order in which the orchestrator first stores them
Uids == <<"a", "b", "c", "d">>

UidSet == {Uids[i] : i \in 1..Len(Uids)}

\* a MemoryAtom, with the fields the store, its index and edge discovery
\* read.  Strings of effects and preconditions are sequences of words;
\* time_start is in hours, -1 for null; parent_uid "null" for null;
\* causal_links is the length of the array; causal_confidence and the
\* optional activation_score and spin_alignment are in hundredths.
NewAtom(uid) ==
    [uid |-> uid, version |-> 1, parent_uid |-> "null",
     topic_tags |-> <<>>, entities |-> <<>>, intent_type |-> "inform",
     causal_links |-> 0, actionability |-> "none",
     preconditions |-> <<>>, effects |-> <<>>, causal_confidence |-> 50,
     time_start |-> -1]

\* the record with an optional field set
WithField(atom, field, value) ==
    [f \in DOMAIN atom \cup {field} |-> IF f = field THEN value ELSE atom[f]]

AtomA ==
    WithField([NewAtom("a") EXCEPT
                  !.topic_tags = <<"auth", "login">>,
                  !.entities = <<[type |-> "PER", canonical |-> "alice"]>>,
                  !.effects = << <<"token">> >>,
                  !.causal_confidence = 90,
                  !.time_start = 10],
              "activation_score", 80)

\* a later version of record a, with other tags and a lower score
AtomA2 ==
    WithField([NewAtom("a") EXCEPT
                  !.version = 2,
                  !.topic_tags = <<"oauth">>],
              "activation_score", 60)

AtomB ==
    WithField(WithField([NewAtom("b") EXCEPT
                            !.parent_uid = "a",
                            !.topic_tags = <<"auth", "login", "oauth">>,
                            !.entities = <<[type |-> "PER", canonical |-> "alice"]>>,
                            !.preconditions = << <<"token", "issued">> >>,
                            !.time_start = 13],
                        "activation_score", 80),
              "spin_alignment", 90)

AtomC ==
    WithField([NewAtom("c") EXCEPT
                  !.topic_tags = <<"auth">>,
                  !.causal_links = 1,
                  !.effects = << <<"token", "issued", "now">> >>,
                  !.time_start = 40],
              "spin_alignment", 0)

AtomD == WithField(NewAtom("d"), "spin_alignment", 30)

\* the records the orchestrator stores: one per uid
AtomInputs == {AtomA, AtomB, AtomC, AtomD}

\* the records outside callers store, in any order
RecordInputs == {AtomA, AtomA2, AtomB, AtomC}

\* Map.has / Map.get on a map kept as the list of its values
MapHas(as, uid) == \E i \in 1..Len(as) : as[i].uid = uid

MapGet(as, uid) == as[CHOOSE i \in 1..Len(as) : as[i].uid = uid]

\* Map.set: a key the map already has keeps its position
MapSet_Append(as, atom) == Append(as, atom)

MapSet(as, atom) ==
    IF MapHas(as, atom.uid)
    THEN [i \in 1..Len(as) |-> IF as[i].uid = atom.uid THEN atom ELSE as[i]]
    ELSE Append(as, atom)

StoredUids == {atoms[i].uid : i \in 1..Len(atoms)}

\* SuperarrayMemory.get(uid) finds a record
HasAtom(uid) == uid \in StoredUids

\* SuperarrayMemory.get(uid), for a uid that is stored
get(uid) == atoms[CHOOSE i \in 1..Len(atoms) : atoms[i].uid = uid]

\* addToIndex: the key's Set keeps the order in which uids were first added
addToIndex(index, key, uid) ==
    IF key \notin DOMAIN index
    THEN [k \in DOMAIN index \cup {key} |-> IF k = key THEN <<uid>> ELSE index[k]]
    ELSE IF uid \in Range(index[key]) THEN index
    ELSE [index EXCEPT ![key] = Append(@, uid)]

\* the keys indexAtom files a record under, in the order of its calls
IndexKeys(atom) ==
    atom.topic_tags
    \o [i \in 1..Len(atom.entities) |-> "entity:" \o atom.entities[i].type]
    \o <<"intent:" \o atom.intent_type>>
    \o (IF atom.causal_links > 0 THEN <<"has:causality">> ELSE <<>>)
    \o <<"actionability:" \o atom.actionability>>

RECURSIVE AddKeys(_, _, _)
AddKeys(index, keys, uid) ==
    IF keys = <<>> THEN index
    ELSE AddKeys(addToIndex(index, Head(keys), uid), Tail(keys), uid)

\* a variant that first retracts the uid from every key
indexAtom_Retracting(index, atom) ==
    AddKeys([k \in DOMAIN index |-> SelectSeq(index[k], LAMBDA u : u # atom.uid)],
            IndexKeys(atom), atom.uid)

indexAtom(index, atom) == AddKeys(index, IndexKeys(atom), atom.uid)

\* atom.activation_score ?? 0
Score(atom) ==
    IF "activation_score" \in DOMAIN atom THEN atom.activation_score ELSE 0

\* a variant that keeps the records at or below the threshold
MeetsThreshold_Below(atom, threshold) == Score(atom) <= threshold

\* (atom.activation_score ?? 0) >= threshold
MeetsThreshold(atom, threshold) == Score(atom) >= threshold

\* query, lines 282-290: the Set of candidates, in insertion order
RECURSIVE Candidates(_, _, _)
Candidates(index, activeDimensions, candidates) ==
    IF activeDimensions = <<>> THEN candidates
    ELSE LET dim == Head(activeDimensions)
             atomIds == IF dim \in DOMAIN index THEN index[dim] ELSE <<>>
         IN  Candidates(index, Tail(activeDimensions),
                        candidates \o SelectSeq(atomIds,
                                                LAMBDA id : id \notin Range(candidates)))

\* SuperarrayMemory.query
query(as, index, activeDimensions, threshold) ==
    LET candidates == Candidates(index, activeDimensions, <<>>)
        kept == SelectSeq(candidates,
                          LAMBDA uid : /\ MapHas(as, uid)
                                       /\ MeetsThreshold(MapGet(as, uid), threshold))
        results == [i \in 1..Len(kept) |->
                       [atom |-> MapGet(as, kept[i]), score |-> Score(MapGet(as, kept[i]))]]
        sorted == SortByScore(results)
    IN  [i \in 1..Len(sorted) |-> sorted[i].atom]

\* query(activeDimensions, threshold = 0.7)
DefaultThreshold == 70

\* the key lists and thresholds callers query with; "ghost" is a key
\* nothing is indexed under
KeyInputs ==
    {<<>>, <<"ghost">>, <<"auth">>, <<"auth", "oauth">>, <<"oauth", "auth">>}

ThresholdInputs == {0, 50, DefaultThreshold, 90}

\* SuperarrayMemory.store, as the orchestrator calls it: every record under
\* a new uid
Store ==
    /\ \E atom \in AtomInputs :
          /\ Len(atoms) < Len(Uids)
          /\ atom.uid = Uids[Len(atoms) + 1]
          /\ atoms' = MapSet(atoms, atom)
          /\ dimensionIndex' = indexAtom(dimensionIndex, atom)
          /\ memCall' = [op |-> "store", atom |-> atom, before |-> atoms,
                         indexBefore |-> dimensionIndex]
    /\ navCall' = [op |-> "store", before |-> wormholes]
    /\ UNCHANGED <<orchVars, stored, wormholes, created, discovered, navigated, vbcVars>>

\* SuperarrayMemory.store, as any caller may call it
StoreRecord ==
    /\ stored < MaxStores
    /\ \E atom \in RecordInputs :
          /\ atoms' = MapSet(atoms, atom)
          /\ dimensionIndex' = indexAtom(dimensionIndex, atom)
          /\ memCall' = [op |-> "store", atom |-> atom, before |-> atoms,
                         indexBefore |-> dimensionIndex]
    /\ stored' = stored + 1
    /\ navCall' = [op |-> "store", before |-> wormholes]
    /\ UNCHANGED <<orchVars, wormholes, created, discovered, navigated, vbcVars>>

\* SuperarrayMemory.get
Get ==
    /\ \E uid \in UidSet :
          memCall' = [op |-> "get", uid |-> uid, before |-> atoms,
                      indexBefore |-> dimensionIndex,
                      found |-> MapHas(atoms, uid),
                      result |-> IF MapHas(atoms, uid) THEN <<MapGet(atoms, uid)>>
                                 ELSE <<>>]
    /\ UNCHANGED <<orchVars, atoms, dimensionIndex, stored, netVars, vbcVars>>

\* SuperarrayMemory.all
All ==
    /\ memCall' = [op |-> "all", before |-> atoms, result |-> atoms]
    /\ UNCHANGED <<orchVars, atoms, dimensionIndex, stored, netVars, vbcVars>>

\* SuperarrayMemory.query
Query ==
    /\ \E activeDimensions \in KeyInputs, threshold \in ThresholdInputs :
          memCall' = [op |-> "query", activeDimensions |-> activeDimensions,
                      threshold |-> threshold,
                      result |-> query(atoms, dimensionIndex, activeDimensions,
                                       threshold)]
    /\ UNCHANGED <<orchVars, atoms, dimensionIndex, stored, netVars, vbcVars>>

\* ========================================================================
\* WormholeNetwork
\* ========================================================================

NavigationStrategy ==
    {"breadth_first", "depth_first", "best_first", "random_walk",
     "guided", "surprise", "temporal", "causal"}

\* navigate: options.maxDepth || 10, options.maxSteps || 20
DefaultMaxDepth == 10
DefaultMaxSteps == 20

\* the edges callers declare with createWormhole
WormholeInputs ==
    {[from |-> "a", to |-> "b", type |-> "temporal", strength |-> 800, bidirectional |-> FALSE],
     [from |-> "a", to |-> "c", type |-> "temporal", strength |-> 500, bidirectional |-> FALSE],
     [from |-> "a", to |-> "d", type |-> "causal",   strength |-> 200, bidirectional |-> FALSE],
     [from |-> "b", to |-> "c", type |-> "temporal", strength |-> 800, bidirectional |-> FALSE],
     [from |-> "c", to |-> "a", type |-> "semantic", strength |-> 500, bidirectional |-> TRUE],
     [from |-> "a", to |-> "b", type |-> "contrast", strength |-> 500, bidirectional |-> TRUE]}

\* the options callers pass; 0 stands for a value that is absent or 0, which
\* the code cannot tell apart
NavOptionInputs ==
    {[maxDepth |-> 0, maxSteps |-> 0],
     [maxDepth |-> 1, maxSteps |-> 0],
     [maxDepth |-> 0, maxSteps |-> 2]}

\* the uids callers start from
StartInputs == {"a", "b", "c"}

\* this.wormholes.get(uid), creating the list when the key is new
PushWormhole(ws, w) ==
    IF w.from \in DOMAIN ws
    THEN [ws EXCEPT ![w.from] = Append(@, w)]
    ELSE [u \in DOMAIN ws \cup {w.from} |-> IF u = w.from THEN <<w>> ELSE ws[u]]

\* createWormhole: id stands for the identity of the edge object
createWormhole(ws, wormhole, serial) ==
    LET fullWormhole ==
            [id |-> 2 * serial + 1, from |-> wormhole.from, to |-> wormhole.to,
             type |-> wormhole.type, strength |-> wormhole.strength,
             bidirectional |-> wormhole.bidirectional, traversalCount |-> 0]
        reverseWormhole ==
            [fullWormhole EXCEPT !.id = 2 * serial + 2,
                                 !.from = wormhole.to, !.to = wormhole.from]
        forward == PushWormhole(ws, fullWormhole)
    IN  IF wormhole.bidirectional THEN PushWormhole(forward, reverseWormhole)
        ELSE forward

CreateWormhole ==
    /\ created < MaxWormholes
    /\ \E wormhole \in WormholeInputs :
          wormholes' = createWormhole(wormholes, wormhole, created)
    /\ created' = created + 1
    /\ navCall' = [op |-> "createWormhole", before |-> wormholes]
    /\ UNCHANGED <<orchVars, memVars, discovered, navigated, vbcVars>>

\* the network as createWormhole threads it through one discovery pass
Created(net, wormhole) ==
    [wormholes |-> createWormhole(net.wormholes, wormhole, net.created),
     created |-> net.created + 1]

\* String.prototype.includes on strings kept as sequences of words
includes(s, sub) ==
    \E i \in 0..(Len(s) - Len(sub)) : SubSeq(s, i + 1, i + Len(sub)) = sub

\* the shared-tag threshold of a variant that links records sharing one tag
MinSharedTags_One == 2 - 1

\* discoverSemanticWormhole, line 183: intersection.length >= 2
MinSharedTags == 2

discoverSemanticWormhole(net, atomA, atomB) ==
    LET tagsA == Range(atomA.topic_tags)
        tagsB == Range(atomB.topic_tags)
        intersection == tagsA \cap tagsB
    IN  IF Cardinality(intersection) >= MinSharedTags
        THEN Created(net, [from |-> atomA.uid, to |-> atomB.uid, type |-> "semantic",
                           strength |-> RoundDiv(1000 * Cardinality(intersection),
                                                 Max(Cardinality(tagsA),
                                                     Cardinality(tagsB))),
                           bidirectional |-> TRUE])
        ELSE net

\* a variant that stores the temporal edge in both directions
TemporalBidirectional_Mirrored == TRUE

\* discoverTemporalWormhole, line 218
TemporalBidirectional == FALSE

discoverTemporalWormhole(net, atomA, atomB) ==
    LET timeA == atomA.time_start
        timeB == atomB.time_start
        hoursDiff == Abs(timeA - timeB)
    IN  IF timeA # -1 /\ timeB # -1 /\ hoursDiff < 24
        THEN Created(net, [from |-> atomA.uid, to |-> atomB.uid, type |-> "temporal",
                           strength |-> Max(0, 1000 - RoundDiv(1000 * hoursDiff, 24)),
                           bidirectional |-> TemporalBidirectional])
        ELSE net

discoverCausalWormhole(net, atomA, atomB) ==
    LET effectsA == atomA.effects
        preconditionsB == atomB.preconditions
        matches == SelectSeq(effectsA,
                             LAMBDA effect :
                                 \E k \in 1..Len(preconditionsB) :
                                     \/ includes(preconditionsB[k], effect)
                                     \/ includes(effect, preconditionsB[k]))
    IN  IF Len(matches) > 0
        THEN Created(net, [from |-> atomA.uid, to |-> atomB.uid, type |-> "causal",
                           strength |-> atomA.causal_confidence * 8,
                           bidirectional |-> FALSE])
        ELSE net

discoverEntityWormhole(net, atomA, atomB) ==
    LET entitiesA == {atomA.entities[i].canonical : i \in 1..Len(atomA.entities)}
        entitiesB == {atomB.entities[i].canonical : i \in 1..Len(atomB.entities)}
        sharedEntities == entitiesA \cap entitiesB
    IN  IF Cardinality(sharedEntities) > 0
        THEN Created(net, [from |-> atomA.uid, to |-> atomB.uid, type |-> "entity",
                           strength |-> RoundDiv(1000 * Cardinality(sharedEntities),
                                                 Max(Cardinality(entitiesA),
                                                     Cardinality(entitiesB))),
                           bidirectional |-> TRUE])
        ELSE net

discoverHierarchicalWormhole(net, atomA, atomB) ==
    IF atomB.parent_uid = atomA.uid
    THEN Created(net, [from |-> atomA.uid, to |-> atomB.uid, type |-> "hierarchical",
                       strength |-> 1000, bidirectional |-> FALSE])
    ELSE net

\* discoverWormholes, lines 155-171: the five heuristics on one pair
DiscoverPair(net, atomA, atomB) ==
    discoverHierarchicalWormhole(
        discoverEntityWormhole(
            discoverCausalWormhole(
                discoverTemporalWormhole(
                    discoverSemanticWormhole(net, atomA, atomB),
                    atomA, atomB),
                atomA, atomB),
            atomA, atomB),
        atomA, atomB)

\* discoverWormholes, lines 153-173: for i, for j = i + 1
RECURSIVE DiscoverLoop(_, _, _, _)
DiscoverLoop(net, all, i, j) ==
    IF i > Len(all) THEN net
    ELSE IF j > Len(all) THEN DiscoverLoop(net, all, i + 1, i + 2)
    ELSE DiscoverLoop(DiscoverPair(net, all[i], all[j]), all, i, j + 1)

discoverWormholes(net, all) == DiscoverLoop(net, all, 1, 2)

DiscoverWormholes ==
    /\ discovered < MaxDiscoveries
    /\ LET net == discoverWormholes([wormholes |-> wormholes, created |-> created],
                                    atoms)
       IN  /\ wormholes' = net.wormholes
           /\ created' = net.created
    /\ navCall' = [op |-> "discoverWormholes", before |-> wormholes,
                   createdBefore |-> created]
    /\ discovered' = discovered + 1
    /\ UNCHANGED <<orchVars, memVars, navigated, vbcVars>>

\* pruneWeakWormholes(minStrength = 0.3)
DefaultMinStrength == 300

\* the thresholds callers prune with
MinStrengthInputs == {DefaultMinStrength, 875}

\* a variant that prunes the outgoing lists of one endpoint only
PruneKeeps_OneSided(w, minStrength) == w.strength >= minStrength \/ w.id % 2 = 0

\* a variant that also drops the entries of strength minStrength
PruneKeeps_Strict(w, minStrength) == w.strength > minStrength

\* pruneWeakWormholes, line 722: w.strength >= minStrength
PruneKeeps(w, minStrength) == w.strength >= minStrength

pruneWeakWormholes(ws, minStrength) ==
    [uid \in DOMAIN ws |-> SelectSeq(ws[uid], LAMBDA w : PruneKeeps(w, minStrength))]

RECURSIVE CountEdges(_, _)
CountEdges(ws, uids) ==
    IF uids = {} THEN 0
    ELSE LET uid == CHOOSE u \in uids : TRUE
         IN  Len(ws[uid]) + CountEdges(ws, uids \ {uid})

PruneWeakWormholes ==
    /\ \E minStrength \in MinStrengthInputs :
          LET filtered == pruneWeakWormholes(wormholes, minStrength)
          IN  /\ wormholes' = filtered
              /\ navCall' = [op |-> "pruneWeakWormholes", minStrength |-> minStrength,
                             before |-> wormholes,
                             result |-> CountEdges(wormholes, DOMAIN wormholes)
                                        - CountEdges(filtered, DOMAIN filtered)]
    /\ UNCHANGED <<orchVars, memVars, created, discovered, navigated, vbcVars>>

\* a variant that hands out the list ordered by descending strength
getWormholes_ByStrength(ws, fromUid) ==
    IF fromUid \in DOMAIN ws
    THEN LET sorted == SortByScore([i \in 1..Len(ws[fromUid]) |->
                                       [wormhole |-> ws[fromUid][i],
                                        score |-> ws[fromUid][i].strength]])
         IN  [i \in 1..Len(sorted) |-> sorted[i].wormhole]
    ELSE <<>>

\* getWormholes(fromUid): this.wormholes.get(fromUid) || []
getWormholes(ws, fromUid) == IF fromUid \in DOMAIN ws THEN ws[fromUid] ELSE <<>>

\* a variant that counts a traversal on both edge objects of a
\* bidirectional pair
Traverse_BothWays(ws, w) ==
    [u \in DOMAIN ws |->
        [i \in 1..Len(ws[u]) |->
            IF \/ ws[u][i].id = w.id
               \/ /\ w.bidirectional
                  /\ ws[u][i].id = (IF w.id % 2 = 1 THEN w.id + 1 ELSE w.id - 1)
            THEN [ws[u][i] EXCEPT !.traversalCount = @ + 1]
            ELSE ws[u][i]]]

\* wormhole.traversalCount++ on the edge object
Traverse(ws, w) ==
    [ws EXCEPT ![w.from] =
        [i \in 1..Len(@) |->
            IF @[i].id = w.id THEN [@[i] EXCEPT !.traversalCount = @ + 1] ELSE @[i]]]

\* a reference to an edge object in a result: the fields that never change
EdgeRef(w) ==
    [id |-> w.id, from |-> w.from, to |-> w.to, type |-> w.type,
     strength |-> w.strength]

\* !context.visitedAtoms.has(w.to)
Unvisited(st, w) == w.to \notin st.visitedAtoms

\* a variant that ranks an edge lower for every traversal it has had
SortByStrength_LeastUsed(list) ==
    LET sorted == SortByScore([i \in 1..Len(list) |->
                                  [wormhole |-> list[i],
                                   score |-> list[i].strength
                                             - 1000 * list[i].traversalCount]])
    IN  [i \in 1..Len(sorted) |-> sorted[i].wormhole]

\* .sort((a, b) => b.strength - a.strength)
SortByStrength(list) ==
    LET sorted == SortByScore([i \in 1..Len(list) |->
                                  [wormhole |-> list[i], score |-> list[i].strength]])
    IN  [i \in 1..Len(sorted) |-> sorted[i].wormhole]

\* navigate, lines 319-327: the context of one traversal, with the locals
\* of the strategy (path, wormholesUsed, insights, surprises, queue) and the
\* edge lists the traversal updates
NavContext_NoStart(startUid, options) ==
    [path |-> <<>>, wormholesUsed |-> <<>>, surprises |-> <<>>, insights |-> <<>>,
     queue |-> <<>>,
     visitedAtoms |-> {},
     maxDepth |-> IF options.maxDepth # 0 THEN options.maxDepth ELSE DefaultMaxDepth,
     currentDepth |-> 0,
     currentUid |-> startUid,
     wormholes |-> wormholes]

NavContext(startUid, options) ==
    [path |-> <<>>, wormholesUsed |-> <<>>, surprises |-> <<>>, insights |-> <<>>,
     queue |-> <<>>,
     visitedAtoms |-> {startUid},
     maxDepth |-> IF options.maxDepth # 0 THEN options.maxDepth ELSE DefaultMaxDepth,
     currentDepth |-> 0,
     currentUid |-> startUid,
     wormholes |-> wormholes]

\* options.maxSteps || 20
MaxStepsOf(options) ==
    IF options.maxSteps # 0 THEN options.maxSteps ELSE DefaultMaxSteps

\* a variant that uses and counts the edge without adding its record
Follow_EdgeOnly(st, w) ==
    [st EXCEPT !.wormholesUsed = Append(@, EdgeRef(w)),
               !.visitedAtoms = @ \cup {w.to},
               !.currentUid = w.to,
               !.wormholes = Traverse(@, w)]

\* path.push(destAtom); wormholesUsed.push(w); visitedAtoms.add(w.to);
\* w.traversalCount++
Follow(st, w) ==
    [st EXCEPT !.path = Append(@, w.to),
               !.wormholesUsed = Append(@, EdgeRef(w)),
               !.visitedAtoms = @ \cup {w.to},
               !.currentUid = w.to,
               !.wormholes = Traverse(@, w)]

\* breadthFirstNavigation, lines 379-393: the edges of one dequeued node
RECURSIVE BfsExpand(_, _, _, _)
BfsExpand(st, list, i, depth) ==
    IF i > Len(list) THEN st
    ELSE IF Unvisited(st, list[i]) /\ HasAtom(list[i].to)
         THEN BfsExpand([Follow(st, list[i]) EXCEPT
                            !.queue = Append(@, [uid |-> list[i].to, depth |-> depth + 1])],
                        list, i + 1, depth)
         ELSE BfsExpand(st, list, i + 1, depth)

\* breadthFirstNavigation, lines 372-394: the while loop
RECURSIVE BfsLoop(_, _)
BfsLoop(st, maxSteps) ==
    IF ~(Len(st.queue) > 0 /\ Len(st.path) < maxSteps) THEN st
    ELSE LET current == Head(st.queue)
             shifted == [st EXCEPT !.queue = Tail(@)]
         IN  IF current.depth >= st.maxDepth
             THEN BfsLoop(shifted, maxSteps)
             ELSE BfsLoop(BfsExpand(shifted, getWormholes(shifted.wormholes, current.uid),
                                    1, current.depth),
                          maxSteps)

breadthFirstNavigation(context, options) ==
    LET st == [context EXCEPT
                  !.path = <<context.currentUid>>,
                  !.queue = <<[uid |-> context.currentUid, depth |-> 0]>>]
        done == BfsLoop(st, MaxStepsOf(options))
    IN  [done EXCEPT !.insights = <<[text |-> "Explored atoms breadth-first",
                                     n |-> Len(done.path)]>>]

\* depthFirstNavigation, lines 411-432: the closure dfs and its edge loop;
\* Array.sort orders the stored edge list itself
RECURSIVE dfs(_, _, _, _)
RECURSIVE DfsEdges(_, _, _, _, _)
dfs(st, uid, depth, maxSteps) ==
    IF depth >= st.maxDepth \/ Len(st.path) >= maxSteps THEN st
    ELSE IF ~HasAtom(uid) \/ uid \in st.visitedAtoms THEN st
    ELSE LET sorted == SortByStrength(getWormholes(st.wormholes, uid))
             entered == [st EXCEPT
                            !.path = Append(@, uid),
                            !.visitedAtoms = @ \cup {uid},
                            !.wormholes = IF uid \in DOMAIN @
                                          THEN [@ EXCEPT ![uid] = sorted]
                                          ELSE @]
         IN  DfsEdges(entered, sorted, 1, depth, maxSteps)

DfsEdges(st, list, i, depth, maxSteps) ==
    IF i > Len(list) THEN st
    ELSE IF Unvisited(st, list[i])
         THEN DfsEdges(dfs([st EXCEPT
                               !.wormholesUsed = Append(@, EdgeRef(list[i])),
                               !.wormholes = Traverse(@, list[i])],
                           list[i].to, depth + 1, maxSteps),
                       list, i + 1, depth, maxSteps)
         ELSE DfsEdges(st, list, i + 1, depth, maxSteps)

depthFirstNavigation(context, options) ==
    LET done == dfs(context, context.currentUid, 0, MaxStepsOf(options))
    IN  [done EXCEPT !.insights = <<[text |-> "Explored atoms depth-first",
                                     n |-> Len(done.path)]>>]

\* bestFirstNavigation, lines 453-473
RECURSIVE BestFirstLoop(_, _)
BestFirstLoop(st, maxSteps) ==
    IF ~(Len(st.path) < maxSteps /\ st.currentDepth < st.maxDepth) THEN st
    ELSE LET sorted == SortByStrength(
                           SelectSeq(getWormholes(st.wormholes, st.currentUid),
                                     LAMBDA w : Unvisited(st, w)))
         IN  IF Len(sorted) = 0 THEN st
             ELSE IF ~HasAtom(sorted[1].to) THEN st
             ELSE BestFirstLoop([Follow(st, sorted[1]) EXCEPT !.currentDepth = @ + 1],
                                maxSteps)

bestFirstNavigation(context, options) ==
    LET done == BestFirstLoop([context EXCEPT !.path = <<context.currentUid>>],
                              MaxStepsOf(options))
    IN  [done EXCEPT !.insights = <<[text |-> "Followed strongest connections",
                                     n |-> Len(done.path)]>>]

\* randomWalkNavigation, lines 492-511: every value Math.random can give
RECURSIVE RandomWalkLoop(_, _)
RandomWalkLoop(st, maxSteps) ==
    IF ~(Len(st.path) < maxSteps) THEN {st}
    ELSE LET list == SelectSeq(getWormholes(st.wormholes, st.currentUid),
                               LAMBDA w : Unvisited(st, w))
         IN  IF Len(list) = 0 THEN {st}
             ELSE UNION {IF ~HasAtom(list[i].to) THEN {st}
                         ELSE RandomWalkLoop(Follow(st, list[i]), maxSteps)
                         : i \in 1..Len(list)}

randomWalkNavigation(context, options) ==
    {[done EXCEPT !.insights = <<[text |-> "Random walk through atoms",
                                  n |-> Len(done.path)]>>]
     : done \in RandomWalkLoop([context EXCEPT !.path = <<context.currentUid>>],
                               MaxStepsOf(options))}

\* guidedNavigation, line 546: destAtom.spin_alignment || 0.5
SpinAlignment(destAtom) ==
    IF "spin_alignment" \in DOMAIN destAtom /\ destAtom.spin_alignment # 0
    THEN destAtom.spin_alignment
    ELSE 50

\* guidedNavigation, lines 542-550: score in ten-thousandths
GuidedScore(w) ==
    IF ~HasAtom(w.to) THEN 0
    ELSE w.strength * 5 + SpinAlignment(get(w.to)) * 50

\* guidedNavigation, lines 535-566
RECURSIVE GuidedLoop(_, _)
GuidedLoop(st, maxSteps) ==
    IF ~(Len(st.path) < maxSteps) THEN st
    ELSE LET list == SelectSeq(getWormholes(st.wormholes, st.currentUid),
                               LAMBDA w : Unvisited(st, w))
             scoredWormholes ==
                 SortByScore([i \in 1..Len(list) |->
                                 [wormhole |-> list[i], score |-> GuidedScore(list[i])]])
         IN  IF Len(list) = 0 THEN st
             ELSE IF ~HasAtom(scoredWormholes[1].wormhole.to) THEN st
             ELSE GuidedLoop(Follow(st, scoredWormholes[1].wormhole), maxSteps)

\* a variant that scores by alignment even without a spin vector
guidedNavigation_NoFallback(context, options) ==
    LET done == GuidedLoop([context EXCEPT !.path = <<context.currentUid>>],
                           MaxStepsOf(options))
    IN  [done EXCEPT !.insights = <<[text |-> "Guided navigation using spin vector",
                                     n |-> Len(done.path)]>>]

\* guidedNavigation, lines 528-531 and 535-571
guidedNavigation(context, options) ==
    IF ~options.spinVector
    THEN bestFirstNavigation(context, options)
    ELSE LET done == GuidedLoop([context EXCEPT !.path = <<context.currentUid>>],
                                MaxStepsOf(options))
         IN  [done EXCEPT !.insights = <<[text |-> "Guided navigation using spin vector",
                                          n |-> Len(done.path)]>>]

\* surpriseNavigation, line 593: 1 - Math.min(1, w.traversalCount / 10), hundredths
Unexpectedness(w) ==
    100 - (IF w.traversalCount * 10 < 100 THEN w.traversalCount * 10 ELSE 100)

\* surpriseNavigation, lines 594-595: score in ten-thousandths
SurpriseScore(w) ==
    LET typeBonus == IF w.type \in {"contrast", "surprise", "analogy"} THEN 3000 ELSE 0
    IN  (1000 - w.strength) * 4 + Unexpectedness(w) * 40 + typeBonus

\* surpriseNavigation, lines 585-621
RECURSIVE SurpriseLoop(_, _)
SurpriseLoop(st, maxSteps) ==
    IF ~(Len(st.path) < maxSteps) THEN st
    ELSE LET list == SelectSeq(getWormholes(st.wormholes, st.currentUid),
                               LAMBDA w : Unvisited(st, w))
             scoredWormholes ==
                 SortByScore([i \in 1..Len(list) |->
                                 [wormhole |-> list[i], score |-> SurpriseScore(list[i]),
                                  unexpectedness |-> Unexpectedness(list[i])]])
             surprising == scoredWormholes[1]
         IN  IF Len(list) = 0 THEN st
             ELSE IF ~HasAtom(surprising.wormhole.to) THEN st
             ELSE SurpriseLoop(
                      [Follow(st, surprising.wormhole) EXCEPT
                          !.surprises = Append(@,
                              [atom |-> surprising.wormhole.to,
                               unexpectedness |-> surprising.unexpectedness,
                               wormhole |-> EdgeRef(surprising.wormhole)])],
                      maxSteps)

surpriseNavigation(context, options) ==
    LET done == SurpriseLoop([context EXCEPT !.path = <<context.currentUid>>],
                             MaxStepsOf(options))
    IN  [done EXCEPT !.insights = <<[text |-> "Found surprising connections",
                                     n |-> Len(done.surprises)]>>]

\* typeFilteredNavigation, lines 655-674
RECURSIVE TypeFilteredLoop(_, _, _)
TypeFilteredLoop(st, maxSteps, type) ==
    IF ~(Len(st.path) < maxSteps) THEN st
    ELSE LET sorted == SortByStrength(
                           SelectSeq(getWormholes(st.wormholes, st.currentUid),
                                     LAMBDA w : w.type = type /\ Unvisited(st, w)))
         IN  IF Len(sorted) = 0 THEN st
             ELSE IF ~HasAtom(sorted[1].to) THEN st
             ELSE TypeFilteredLoop(Follow(st, sorted[1]), maxSteps, type)

typeFilteredNavigation(context, options, type) ==
    LET done == TypeFilteredLoop([context EXCEPT !.path = <<context.currentUid>>],
                                 MaxStepsOf(options), type)
    IN  [done EXCEPT !.insights = <<[text |-> "Followed chain of one type",
                                     n |-> Len(done.path)]>>]

\* a variant that returns the empty result without a note
NotFound_Silent(context) == context

\* navigate, lines 309-317: the result for a start uid the store lacks
NotFound(context) ==
    [context EXCEPT !.insights = <<[text |-> "Start atom not found", n |-> 0]>>]

\* navigate: the set of results the call can return, each with the edge
\* lists it leaves
navigate(startUid, strategy, options) ==
    IF ~HasAtom(startUid)
    THEN {NotFound(NavContext(startUid, options))}
    ELSE LET context == NavContext(startUid, options)
         IN  CASE strategy = "breadth_first" -> {breadthFirstNavigation(context, options)}
               [] strategy = "depth_first" -> {depthFirstNavigation(context, options)}
               [] strategy = "best_first" -> {bestFirstNavigation(context, options)}
               [] strategy = "random_walk" -> randomWalkNavigation(context, options)
               [] strategy = "guided" -> {guidedNavigation(context, options)}
               [] strategy = "surprise" -> {surpriseNavigation(context, options)}
               [] strategy = "temporal" ->
                      {typeFilteredNavigation(context, options, "temporal")}
               [] strategy = "causal" ->
                      {typeFilteredNavigation(context, options, "causal")}
               [] OTHER -> {bestFirstNavigation(context, options)}

RECURSIVE SumStrength(_)
SumStrength(ws) == IF ws = <<>> THEN 0 ELSE Head(ws).strength + SumStrength(Tail(ws))

Navigate ==
    /\ navigated < MaxNavigations
    /\ \E startUid \in StartInputs, strategy \in NavigationStrategy, o \in NavOptionInputs :
       \E spinVector \in IF strategy = "guided" THEN BOOLEAN ELSE {FALSE} :
          LET options == [maxDepth |-> o.maxDepth, maxSteps |-> o.maxSteps,
                          spinVector |-> spinVector]
          IN  \E done \in navigate(startUid, strategy, options) :
                 /\ wormholes' = done.wormholes
                 /\ navCall' = [op |-> "navigate",
                                startUid |-> startUid,
                                strategy |-> strategy,
                                options |-> options,
                                before |-> wormholes,
                                result |-> [path |-> done.path,
                                            wormholes |-> done.wormholesUsed,
                                            totalStrength |-> SumStrength(done.wormholesUsed),
                                            insights |-> done.insights,
                                            surprises |-> done.surprises]]
    /\ navigated' = navigated + 1
    /\ UNCHANGED <<orchVars, memVars, created, discovered, vbcVars>>

\* new VariableBarrierController(): the default configuration
VbcIdle ==
    [axes |-> initializeAxes,
     maxConcurrentAxes |-> DefaultMaxConcurrentAxes,
     totalBudget |-> DefaultTotalBudget,
     currentPhase |-> "capture",
     currentSpin |-> {},
     tickCount |-> 0]

\* new SuperarrayMemory(); new WormholeNetwork(memory, true) on the empty
\* store, beside a controller nobody calls
NavInit ==
    /\ kernel = VbcIdle
    /\ vbcCall = [op |-> "new"]
    /\ proposed = 0
    /\ adjusted = 0
    /\ atoms = <<>>
    /\ dimensionIndex = <<>>
    /\ memCall = [op |-> "new"]
    /\ stored = 0
    /\ wormholes = <<>>
    /\ navCall = [op |-> "new"]
    /\ created = 0
    /\ discovered = 0
    /\ navigated = 0
    /\ orchCall = [op |-> "new"]
    /\ processed = 0

SpecNav == NavInit /\ [][Store \/ CreateWormhole \/ Navigate]_vars

\* the network with discovery and pruning
SpecGraph ==
    NavInit /\ [][Store \/ CreateWormhole \/ DiscoverWormholes \/ Navigate
                  \/ PruneWeakWormholes]_vars

\* the store and its index under outside callers
SpecMem == NavInit /\ [][StoreRecord \/ Get \/ All \/ Query]_vars

\* edge discovery over a store filled in any order
SpecDisc == NavInit /\ [][StoreRecord \/ DiscoverWormholes]_vars

SpecVBC == VbcInit /\ [][Tick \/ Gate]_vars

\* new VariableBarrierController() for a run whose gate calls carry
\* CtlDeltas deltas in all
CtlInit ==
    /\ kernel = VbcIdle
    /\ vbcCall = [op |-> "new"]
    /\ proposed = MaxDeltas - CtlDeltas
    /\ adjusted = 0
    /\ atoms = <<>>
    /\ dimensionIndex = <<>>
    /\ memCall = [op |-> "new"]
    /\ stored = 0
    /\ wormholes = <<>>
    /\ navCall = [op |-> "new"]
    /\ created = 0
    /\ discovered = 0
    /\ navigated = 0
    /\ orchCall = [op |-> "new"]
    /\ processed = 0

\* the controller with its spin, inspection and adjustment operations
SpecCtl ==
    CtlInit /\ [][Tick \/ Gate \/ SetSpin \/ GetSpin \/ GetSpinAlignedAxes
                  \/ GetCurrentLoads \/ ChangeReturnedLoads \/ GetStatus
                  \/ AdjustBudget \/ AdjustDecay]_vars

\* ========================================================================
\* QuantumOrchestrator
\* ========================================================================

\* what the coordinator reads from a request and from its preflection: the
\* request id and options, and the phase, depth, dimensions, keywords and
\* confidence computed for it
RequestInputs ==
    [id : {"r1", "r2"},
     vbcPhase : TickPhase,
     useWormholes : BOOLEAN,
     navigationStrategy : {"guided", "depth_first", "breadth_first"},
     spinVector : SpinInputs,
     memoryDepth : {5, 10},
     dimensionFocus : {<<"semantic", "relation", "pragmatics", "actionability">>},
     keywords : {<<>>, <<"auth", "login">>},
     confidence : {60}]

\* `interaction_${request.id}`
InteractionUid == [r1 |-> "interaction_r1", r2 |-> "interaction_r2"]

\* storeInteractionAsMemory: the record built for one request
InteractionAtom(request, now) ==
    WithField(
        WithField([NewAtom(InteractionUid[request.id]) EXCEPT
                      !.topic_tags = request.keywords,
                      !.intent_type = "explore",
                      !.actionability = "medium",
                      !.causal_confidence = request.confidence,
                      !.time_start = now],
                  "activation_score", 100),
        "spin_alignment", request.confidence)

\* a call the coordinator makes on one of its parts
CallOn(part, op) == [on |-> part, op |-> op]

\* navigateMemory: the navigate call it makes, none on an empty store
NavigationOf(request) ==
    IF atoms = <<>> THEN {}
    ELSE {[startUid |-> atoms[1].uid,
           strategy |-> request.navigationStrategy,
           options |-> [spinVector |-> TRUE,
                        maxDepth |-> request.memoryDepth,
                        maxSteps |-> request.memoryDepth * 2]]}

\* process: one request cycle, with every call it makes on the gate, the
\* store and the graph, in the order it makes them
Process ==
    /\ processed < MaxRequests
    /\ \E request \in RequestInputs :
          LET ticked == [kernel EXCEPT
                            !.currentPhase = PhaseAfter(kernel.currentPhase,
                                                        request.vbcPhase),
                            !.axes = [a \in DOMAIN kernel.axes |->
                                         [kernel.axes[a] EXCEPT
                                             !.load = DecayLoad(kernel.axes[a],
                                                                request.vbcPhase)]],
                            !.tickCount = @ + 1]
              spun == [ticked EXCEPT !.currentSpin = {request.spinVector}]
              navigation == IF request.useWormholes THEN NavigationOf(request) ELSE {}
              outcomes == IF navigation = {}
                          THEN {[wormholes |-> wormholes, path |-> <<>>]}
                          ELSE LET n == CHOOSE x \in navigation : TRUE
                               IN  {[wormholes |-> done.wormholes, path |-> done.path] :
                                       done \in navigate(n.startUid, n.strategy, n.options)}
              retrieval == IF request.useWormholes
                           THEN <<CallOn("memory", "all")>>
                                \o (IF navigation = {} THEN <<>>
                                    ELSE <<CallOn("wormholeNetwork", "navigate")>>)
                           ELSE <<CallOn("memory", "query")>>
              atom == InteractionAtom(request, 10 + processed)
          IN  \E outcome \in outcomes :
                 /\ kernel' = spun
                 /\ vbcCall' = [op |-> "getCurrentLoads", before |-> spun,
                                result |-> getCurrentLoads(spun.axes)]
                 /\ wormholes' = outcome.wormholes
                 /\ navCall' = [op |-> "store", before |-> outcome.wormholes]
                 /\ atoms' = MapSet(atoms, atom)
                 /\ dimensionIndex' = indexAtom(dimensionIndex, atom)
                 /\ memCall' = [op |-> "store", atom |-> atom, before |-> atoms,
                                indexBefore |-> dimensionIndex]
                 /\ orchCall' =
                        [op |-> "process",
                         request |-> request,
                         memoryAtoms |->
                             IF request.useWormholes
                             THEN SubSeq(outcome.path, 1,
                                         Min(Len(outcome.path), request.memoryDepth))
                             ELSE LET found == query(atoms, dimensionIndex,
                                                     request.dimensionFocus, 70)
                                  IN  [i \in 1..Min(Len(found), request.memoryDepth) |->
                                          found[i].uid],
                         navigation |-> navigation,
                         path |-> outcome.path,
                         calls |-> <<CallOn("memory", "all"),
                                     CallOn("vbc", "tick"),
                                     CallOn("vbc", "setSpin")>>
                                   \o retrieval
                                   \o <<CallOn("vbc", "getStatus"),
                                        CallOn("vbc", "getSpin"),
                                        CallOn("vbc", "getCurrentLoads"),
                                        CallOn("memory", "store")>>]
    /\ processed' = processed + 1
    /\ UNCHANGED <<proposed, adjusted, stored, created, discovered, navigated>>

\* the coordinator as constructed: an empty store, the controller with its
\* defaults, and the graph discovered over the empty store
OrchInit ==
    /\ kernel = VbcIdle
    /\ vbcCall = [op |-> "new"]
    /\ proposed = 0
    /\ adjusted = 0
    /\ atoms = <<>>
    /\ dimensionIndex = <<>>
    /\ memCall = [op |-> "new"]
    /\ stored = 0
    /\ wormholes = discoverWormholes([wormholes |-> <<>>, created |-> 0], <<>>).wormholes
    /\ navCall = [op |-> "new"]
    /\ created = 0
    /\ discovered = 0
    /\ navigated = 0
    /\ orchCall = [op |-> "new"]
    /\ processed = 0

\* the coordinator serving requests
SpecOrch == OrchInit /\ [][Process]_vars

\* ========================================================================
\* Properties of the gate
\* ========================================================================

GateCalled == vbcCall.op = "gate"

\* the position of the delta in the input, for the deltas of one list
ClassOf(id) ==
    IF id \in Ids(vbcCall.result.admitted) THEN "admitted"
    ELSE IF id \in Ids(vbcCall.result.throttled) THEN "throttled"
    ELSE IF id \in Ids(vbcCall.result.deferred) THEN "deferred"
    ELSE "dropped"

\* the admitted deltas that come before position i of the input
AdmittedBefore(i) == SelectSeq(vbcCall.result.admitted, LAMBDA d : d.id < i)

Increasing(ds) == \A i, j \in 1..Len(ds) : i < j => ds[i].id < ds[j].id

\* C1: in every gate call the magnitudes of the admitted deltas sum to the
\* returned totalMovement, and that sum is at most totalBudget.
C1_AdmittedWithinTotalBudget ==
    GateCalled =>
        /\ SumMagnitudes(vbcCall.result.admitted) = vbcCall.result.totalMovement
        /\ SumMagnitudes(vbcCall.result.admitted) <= kernel.totalBudget

\* a call that admitted something and throttled a delta its axis had room for
C1_Witness ==
    /\ GateCalled
    /\ vbcCall.result.admitted # <<>>
    /\ \E i \in 1..Len(vbcCall.result.throttled) :
          LET d == vbcCall.result.throttled[i]
          IN  /\ d.magnitude > 0
              /\ d.magnitude <= vbcCall.before.axes[d.axis].budget
                                    - kernel.axes[d.axis].load
              /\ vbcCall.result.totalMovement + d.magnitude > kernel.totalBudget

\* C2: for every registered axis, load after the call minus load before it
\* is the sum of the magnitudes the call admitted on that axis (0 when it
\* admitted none there).
C2_LoadConservation ==
    GateCalled =>
        \A a \in AxisNames :
            kernel.axes[a].load - vbcCall.before.axes[a].load
                = SumMagnitudes(OnAxis(vbcCall.result.admitted, a))

\* a call on a loaded axis that admits on one axis and defers on another
C2_Witness ==
    /\ GateCalled
    /\ vbcCall.before.axes["semantics"].load > 0
    /\ OnAxis(vbcCall.result.admitted, "semantics") # <<>>
    /\ OnAxis(vbcCall.result.deferred, "affect") # <<>>
    /\ OnAxis(vbcCall.result.admitted, "affect") = <<>>

\* the class the rule of the claim gives the delta at position i, from the
\* loads before the call and the deltas admitted before position i
RuleClass(i) ==
    LET d == vbcCall.deltas[i]
        k == vbcCall.before
        earlier == AdmittedBefore(i)
        load == k.axes[d.axis].load + SumMagnitudes(OnAxis(earlier, d.axis))
        active == {earlier[j].axis : j \in 1..Len(earlier)}
        runningTotal == SumMagnitudes(earlier)
        effective == (k.axes[d.axis].budget * CapMultiplier(k.currentPhase, d.axis)) \div 10
    IN  IF d.magnitude > effective - load THEN "throttled"
        ELSE IF d.axis \notin active /\ Cardinality(active) >= k.maxConcurrentAxes
             THEN "deferred"
        ELSE IF runningTotal + d.magnitude > k.totalBudget THEN "throttled"
        ELSE "admitted"

C4_UnknownAxisDropped ==
    GateCalled =>
        LET r == vbcCall.result
            registered == {i \in 1..Len(vbcCall.deltas) :
                              vbcCall.deltas[i].axis \in AxisNames}
        IN  /\ Ids(r.admitted) \cup Ids(r.throttled) \cup Ids(r.deferred) = registered
            /\ Ids(r.admitted) \cap Ids(r.throttled) = {}
            /\ Ids(r.admitted) \cap Ids(r.deferred) = {}
            /\ Ids(r.throttled) \cap Ids(r.deferred) = {}
            /\ Len(r.admitted) + Len(r.throttled) + Len(r.deferred)
                   = Cardinality(registered)
            /\ \A i \in 1..Len(vbcCall.deltas) :
                   ClassOf(i) # "dropped" =>
                       \E l \in {r.admitted, r.throttled, r.deferred} :
                           \E j \in 1..Len(l) : l[j] = vbcCall.deltas[i]
            /\ registered = {} =>
                   /\ kernel = vbcCall.before
                   /\ r.totalMovement = 0
                   /\ r.activeAxes = {}

\* an unregistered delta between two registered ones
C4_Witness ==
    /\ GateCalled
    /\ Len(vbcCall.deltas) = 3
    /\ vbcCall.deltas[2].axis \notin AxisNames
    /\ ClassOf(1) = "admitted"
    /\ ClassOf(3) = "throttled"

\* C5: a delta of negative magnitude is never admitted, no gate call lowers
\* a load, and no load is ever negative.
C5_NegativeNeverAdmitted ==
    /\ \A a \in AxisNames : kernel.axes[a].load >= 0
    /\ GateCalled =>
          /\ \A i \in 1..Len(vbcCall.result.admitted) :
                 vbcCall.result.admitted[i].magnitude >= 0
          /\ \A a \in AxisNames :
                 kernel.axes[a].load >= vbcCall.before.axes[a].load

\* C6: the budget of an axis is scaled by a phase multiplier that is above 1
\* for some registered axis in every phase: semantics in capture has 0.45,
\* so 0.4 proposed alone on semantics at load 0 in capture is admitted.
C6_PhaseScaledBudget ==
    ( /\ GateCalled
      /\ vbcCall.before.currentPhase = "capture"
      /\ Len(vbcCall.deltas) = 1
      /\ vbcCall.deltas[1].axis = "semantics"
      /\ vbcCall.deltas[1].magnitude = 400
      /\ vbcCall.before.axes["semantics"].load = 0 )
    => /\ ClassOf(1) = "admitted"
       /\ \A p \in TickPhase : \E a \in AxisNames : CapMultiplier(p, a) > 10

\* C7: a tick does not increase the load of an axis with decay in (0,1],
\* and with decay < 1 it brings the load nearer to 0, whatever gate calls
\* came before.
C7_DecayNeverIncreases ==
    vbcCall.op = "tick" =>
        \A a \in AxisNames :
            LET old == vbcCall.before.axes[a]
                new == kernel.axes[a]
            IN  (old.decay > 0 /\ old.decay <= 100) =>
                    /\ new.load <= old.load
                    /\ Abs(new.load) <= Abs(old.load)

\* ========================================================================
\* Properties of navigate
\* ========================================================================

NavCalled == navCall.op = "navigate"

SingleChain ==
    {"best_first", "random_walk", "guided", "surprise", "temporal", "causal"}

\* uid is reached from the start through at most d of the edges used
RECURSIVE ReachedWithin(_, _)
ReachedWithin(uid, d) ==
    \/ uid = navCall.startUid
    \/ /\ d > 0
       /\ \E i \in 1..Len(navCall.result.wormholes) :
             /\ navCall.result.wormholes[i].to = uid
             /\ ReachedWithin(navCall.result.wormholes[i].from, d - 1)

\* C8: with maxSteps = k the path of every strategy has at most k + 1
\* records, whatever the out-degree of the nodes visited (the code reads
\* maxSteps = 0 as absent, so the formula speaks of k >= 1).
C8_PathWithinMaxSteps ==
    (NavCalled /\ navCall.options.maxSteps >= 1) =>
        Len(navCall.result.path) <= navCall.options.maxSteps + 1

\* C9: the path of one navigate call holds no uid twice, and the start
\* record is nowhere but in first place.
C9_NoRevisit ==
    NavCalled =>
        LET path == navCall.result.path
        IN  /\ \A i, j \in 1..Len(path) : path[i] = path[j] => i = j
            /\ \A i \in 1..Len(path) : path[i] = navCall.startUid => i = 1

\* a walk of three records from a node that an edge of the graph leads back
\* to, between two nodes joined by more than one edge
C9_Witness ==
    /\ NavCalled
    /\ Len(navCall.result.path) >= 3
    /\ \E u \in DOMAIN wormholes : \E i \in 1..Len(wormholes[u]) :
          /\ wormholes[u][i].to = navCall.startUid
          /\ u \in {navCall.result.path[k] : k \in 1..Len(navCall.result.path)}
    /\ \E i, j \in 1..Len(getWormholes(wormholes, navCall.startUid)) :
          /\ i # j
          /\ wormholes[navCall.startUid][i].to = wormholes[navCall.startUid][j].to

\* C10: with maxDepth = d every record of the path is reached through at
\* most d of the edges used, and a single-chain strategy follows at most d
\* edges (the code reads maxDepth = 0 as absent, so the formula speaks of
\* d >= 1).
C10_PathWithinMaxDepth ==
    (NavCalled /\ navCall.options.maxDepth >= 1) =>
        /\ \A i \in 1..Len(navCall.result.path) :
               ReachedWithin(navCall.result.path[i], navCall.options.maxDepth)
        /\ navCall.strategy \in SingleChain =>
               Len(navCall.result.wormholes) <= navCall.options.maxDepth

\* C11: for every strategy, navigate from a start uid that is not in the
\* store returns an empty path, no edges, total strength 0 and the note
\* "Start atom not found", and leaves every adjacency list and every
\* traversal count as it was.
C11_StartNotFound ==
    (NavCalled /\ ~HasAtom(navCall.startUid)) =>
        /\ navCall.result.path = <<>>
        /\ navCall.result.wormholes = <<>>
        /\ navCall.result.surprises = <<>>
        /\ navCall.result.totalStrength = 0
        /\ Len(navCall.result.insights) = 1
        /\ navCall.result.insights[1].text = "Start atom not found"
        /\ wormholes = navCall.before

\* a traversal strategy asked to start from an absent record that has
\* outgoing edges towards a stored one
C11_Witness ==
    /\ NavCalled
    /\ ~HasAtom(navCall.startUid)
    /\ navCall.strategy = "breadth_first"
    /\ \E w \in Range(getWormholes(wormholes, navCall.startUid)) : HasAtom(w.to)

\* ========================================================================
\* Properties of the edge lists
\* ========================================================================

\* the serial of the other edge object of a bidirectional pair
MirrorId(id) == IF id % 2 = 1 THEN id + 1 ELSE id - 1

AllEdges(ws) == UNION {Range(ws[uid]) : uid \in DOMAIN ws}

\* C12: in every state reached by createWormhole, discovery, navigate and
\* prune, each edge created with bidirectional = true from A to B lies in
\* the list of A exactly when its mirror lies in the list of B, and the two
\* have the same strength and type.
C12_EdgeSymmetry ==
    \A w \in AllEdges(wormholes) :
        w.bidirectional =>
            \E m \in Range(getWormholes(wormholes, w.to)) :
                /\ m.id = MirrorId(w.id)
                /\ m.to = w.from
                /\ m.strength = w.strength
                /\ m.type = w.type

\* a prune that removed one bidirectional pair and kept another whose
\* forward edge a traversal had followed
C12_Witness ==
    /\ navCall.op = "pruneWeakWormholes"
    /\ \E w \in AllEdges(navCall.before) :
           w.bidirectional /\ w.id \notin {x.id : x \in AllEdges(wormholes)}
    /\ \E w \in AllEdges(wormholes) : w.bidirectional /\ w.traversalCount > 0
    /\ discovered > 0

\* C21: pruneWeakWormholes(m) leaves in every adjacency list exactly the
\* entries of strength >= m, in their order and with their counters, returns
\* the number of entries of strength < m it found (both entries of a
\* bidirectional pair count), and a second pruneWeakWormholes(m) right after
\* it would remove nothing and return 0.
C21_PruneExact ==
    navCall.op = "pruneWeakWormholes" =>
        LET m == navCall.minStrength
            again == pruneWeakWormholes(wormholes, m)
        IN  /\ DOMAIN wormholes = DOMAIN navCall.before
            /\ \A uid \in DOMAIN wormholes :
                   wormholes[uid] =
                       SelectSeq(navCall.before[uid], LAMBDA w : w.strength >= m)
            /\ navCall.result =
                   Cardinality({w \in AllEdges(navCall.before) : w.strength < m})
            /\ again = wormholes
            /\ CountEdges(wormholes, DOMAIN wormholes)
                   - CountEdges(again, DOMAIN again) = 0

\* a prune that removed both entries of a bidirectional pair and kept an
\* entry of strength m that a traversal had followed
C21_Witness ==
    /\ navCall.op = "pruneWeakWormholes"
    /\ navCall.result >= 2
    /\ \E w \in AllEdges(navCall.before) :
           /\ w.bidirectional
           /\ w.strength < navCall.minStrength
           /\ w.id \notin {x.id : x \in AllEdges(wormholes)}
    /\ \E w \in AllEdges(wormholes) :
           w.strength = navCall.minStrength /\ w.traversalCount > 0

\* ========================================================================
\* Properties of the strategies
\* ========================================================================

\* every adjacency list holds its edge objects in the order of their creation
CreationOrder(ws) ==
    \A uid \in DOMAIN ws :
        \A i, j \in 1..Len(ws[uid]) : i < j => ws[uid][i].id < ws[uid][j].id

\* the place of uid in the path of the latest navigate call
PlaceOf(uid) ==
    CHOOSE k \in 1..Len(navCall.result.path) : navCall.result.path[k] = uid

\* the edges that leave the i-th record of the path for a stored record
\* that is not among the first i records of the path
OpenEdges(i) ==
    {w \in Range(getWormholes(navCall.before, navCall.result.path[i])) :
        /\ HasAtom(w.to)
        /\ w.to \notin {navCall.result.path[k] : k \in 1..i}}

C28_BestFirstGreedy ==
    (NavCalled /\ navCall.strategy = "best_first" /\ HasAtom(navCall.startUid)) =>
        LET path == navCall.result.path
            used == navCall.result.wormholes
            maxDepth == IF navCall.options.maxDepth # 0 THEN navCall.options.maxDepth
                        ELSE DefaultMaxDepth
        IN  /\ Len(used) = Len(path) - 1
            /\ \A i \in 1..Len(used) :
                   /\ used[i].from = path[i]
                   /\ used[i].to = path[i + 1]
                   /\ \E w \in OpenEdges(i) : w.id = used[i].id
                   /\ \A w \in OpenEdges(i) :
                          \/ w.strength < used[i].strength
                          \/ w.strength = used[i].strength /\ w.id >= used[i].id
            /\ (Len(path) < MaxStepsOf(navCall.options) /\ Len(used) < maxDepth) =>
                   OpenEdges(Len(path)) = {}

\* the alignment of a stored record as the specification reads it: the
\* value of the record, 0 included, and 0.5 for a record without a value
StatedAlignment(uid) ==
    IF "spin_alignment" \in DOMAIN get(uid) THEN get(uid).spin_alignment ELSE 50

\* 0.5 x strength + 0.5 x alignment, in ten-thousandths
StatedScore(w) == w.strength * 5 + StatedAlignment(w.to) * 50

\* C29: with a spin vector, every step of guided follows an edge whose
\* score 0.5 x strength + 0.5 x alignment is greatest among the edges to
\* stored unvisited records, a destination of alignment 0 scoring with 0.
C29_GuidedScore ==
    (/\ NavCalled
     /\ navCall.strategy = "guided"
     /\ navCall.options.spinVector
     /\ HasAtom(navCall.startUid)) =>
        \A i \in 1..Len(navCall.result.wormholes) :
            \A w \in OpenEdges(i) :
                StatedScore(w) <= StatedScore(navCall.result.wormholes[i])

\* the context of the latest navigate call, as navigate built it
ContextOfCall ==
    [NavContext(navCall.startUid, navCall.options) EXCEPT !.wormholes = navCall.before]

EdgeBefore(id) ==
    CHOOSE w \in AllEdges(navCall.before) : w.id = id

\* 0.4 x (1 - strength) + 0.4 x unexpectedness + 0.3 x bonus with bonus 0.3
\* for the three special types, in ten-thousandths
StatedSurpriseScore(w) ==
    (1000 - w.strength) * 4
    + (100 - Min(100, w.traversalCount * 10)) * 40
    + (IF w.type \in {"contrast", "surprise", "analogy"} THEN 900 ELSE 0)

\* C31: every step of surprise follows an edge whose score
\* 0.4 x (1 - strength) + 0.4 x (1 - min(1, traversal_count / 10)) + 0.09 for
\* the types contrast, surprise and analogy is greatest among the edges to
\* stored unvisited records, and the call records one surprise per step with
\* the unexpectedness the edge had before its counter was incremented.
C31_SurpriseScore ==
    (NavCalled /\ navCall.strategy = "surprise" /\ HasAtom(navCall.startUid)) =>
        LET used == navCall.result.wormholes
            surprises == navCall.result.surprises
        IN  /\ Len(surprises) = Len(used)
            /\ \A i \in 1..Len(used) :
                   /\ surprises[i].wormhole = used[i]
                   /\ surprises[i].atom = used[i].to
                   /\ surprises[i].unexpectedness =
                          100 - Min(100, EdgeBefore(used[i].id).traversalCount * 10)
                   /\ \A w \in OpenEdges(i) :
                          StatedSurpriseScore(w)
                              <= StatedSurpriseScore(EdgeBefore(used[i].id))

\* the graph restricted to the edges of one type
OfType(ws, type) ==
    [uid \in DOMAIN ws |-> SelectSeq(ws[uid], LAMBDA w : w.type = type)]

\* C32: temporal (causal) navigation uses edges of type temporal (causal)
\* only, and returns the path best_first returns for the same start and
\* options on the graph restricted to the edges of that type.
C32_TypeFilteredAsBestFirst ==
    (NavCalled /\ navCall.strategy \in {"temporal", "causal"}
               /\ HasAtom(navCall.startUid)) =>
        LET restricted == [ContextOfCall EXCEPT
                              !.wormholes = OfType(navCall.before, navCall.strategy)]
        IN  /\ \A i \in 1..Len(navCall.result.wormholes) :
                   navCall.result.wormholes[i].type = navCall.strategy
            /\ navCall.result.path =
                   bestFirstNavigation(restricted, navCall.options).path

RECURSIVE SumTraversals(_)
SumTraversals(edges) ==
    IF edges = {} THEN 0
    ELSE LET w == CHOOSE x \in edges : TRUE
         IN  w.traversalCount + SumTraversals(edges \ {w})

\* getWormholeStats().totalTraversals
TotalTraversals(ws) == SumTraversals(AllEdges(ws))

\* the calls of the graph that record the edge lists they found
GraphCalled ==
    navCall.op \in {"store", "createWormhole", "discoverWormholes", "navigate",
                    "pruneWeakWormholes"}

\* C33: a navigate call adds exactly 1 to the traversal count of each edge
\* in its result and leaves every other entry as it was, the mirror of a
\* bidirectional edge included, so the total of the counts grows by the
\* number of edges in the result; and no call lowers the count of an entry
\* that it keeps.
C33_TraversalCounts ==
    /\ NavCalled =>
           /\ DOMAIN wormholes = DOMAIN navCall.before
           /\ \A uid \in DOMAIN wormholes :
                  /\ Len(wormholes[uid]) = Len(navCall.before[uid])
                  /\ \A i \in 1..Len(wormholes[uid]) :
                         LET old == navCall.before[uid][i]
                             uses == {j \in 1..Len(navCall.result.wormholes) :
                                         navCall.result.wormholes[j].id = old.id}
                         IN  wormholes[uid][i] =
                                 [old EXCEPT !.traversalCount = @ + Cardinality(uses)]
           /\ \A i, j \in 1..Len(navCall.result.wormholes) :
                  navCall.result.wormholes[i].id = navCall.result.wormholes[j].id => i = j
           /\ TotalTraversals(wormholes) =
                  TotalTraversals(navCall.before) + Len(navCall.result.wormholes)
    /\ GraphCalled =>
           \A w \in AllEdges(wormholes) :
               \A old \in AllEdges(navCall.before) :
                   old.id = w.id => w.traversalCount >= old.traversalCount

\* a walk of two edges, the first of them one of a bidirectional pair whose
\* mirror keeps the count 0
C33_Witness ==
    /\ NavCalled
    /\ Len(navCall.result.wormholes) >= 2
    /\ \E w \in AllEdges(wormholes) :
           /\ w.bidirectional
           /\ w.id = navCall.result.wormholes[1].id
           /\ w.traversalCount = 1
           /\ \E m \in AllEdges(wormholes) :
                  m.id = MirrorId(w.id) /\ m.traversalCount = 0

\* C34: in a result with a non-empty path the edges number one less than
\* the records, every edge ends at a record of the path and starts at a
\* record that comes earlier in the path, and the edges whose count the call
\* raised are edges of the result, each ending at a record of the path.
C34_EdgesMatchPath ==
    (NavCalled /\ navCall.result.path # <<>>) =>
        LET path == navCall.result.path
            used == navCall.result.wormholes
        IN  /\ Len(used) = Len(path) - 1
            /\ \A i \in 1..Len(used) :
                   /\ used[i].to \in Range(path)
                   /\ used[i].from \in Range(path)
                   /\ PlaceOf(used[i].from) < PlaceOf(used[i].to)
            /\ \A w \in AllEdges(wormholes) :
                   w.traversalCount > EdgeBefore(w.id).traversalCount =>
                       /\ w.to \in Range(path)
                       /\ \E i \in 1..Len(used) : used[i].id = w.id

\* a breadth_first call that passed over an edge to a record the store
\* lacks and added three records through edges of two nodes
C34_Witness ==
    /\ NavCalled
    /\ navCall.strategy = "breadth_first"
    /\ Len(navCall.result.path) >= 3
    /\ \E w \in AllEdges(wormholes) : ~HasAtom(w.to) /\ w.traversalCount = 0
    /\ \E i \in 1..Len(navCall.result.wormholes) :
           navCall.result.wormholes[i].from # navCall.startUid

\* the strategies that choose without chance and without reading counters
Repeatable ==
    {"breadth_first", "depth_first", "best_first", "guided", "temporal", "causal"}

\* C38: right after a navigate call with a repeatable strategy, the same
\* call on the graph and store as they now are returns the same path.
C38_RepeatedCallSamePath ==
    (NavCalled /\ navCall.strategy \in Repeatable) =>
        \A again \in navigate(navCall.startUid, navCall.strategy, navCall.options) :
            again.path = navCall.result.path

\* a best_first walk of two edges from a record that has a second edge to
\* an unvisited record
C38_Witness ==
    /\ NavCalled
    /\ navCall.strategy = "best_first"
    /\ Len(navCall.result.path) >= 3
    /\ \E w \in Range(getWormholes(wormholes, navCall.startUid)) :
           w.traversalCount = 0 /\ HasAtom(w.to) /\ w.to # navCall.result.path[2]

\* C39: store leaves every adjacency list as it was, and navigate from a
\* stored record that has no outgoing edge returns the path holding that
\* record alone, with no edge.
C39_StoreLeavesGraph ==
    /\ navCall.op = "store" => wormholes = navCall.before
    /\ (/\ NavCalled
        /\ HasAtom(navCall.startUid)
        /\ getWormholes(navCall.before, navCall.startUid) = <<>>) =>
           /\ navCall.result.path = <<navCall.startUid>>
           /\ navCall.result.wormholes = <<>>

\* ========================================================================
\* Properties of the store
\* ========================================================================

QueryCalled == memCall.op = "query"

\* the position of a uid in the store: the order of first insertion
PositionOf(uid) == CHOOSE i \in 1..Len(atoms) : atoms[i].uid = uid

\* C13: for every store state, key list and thresholds t1 <= t2, the
\* records query(keys, t1) returns include those query(keys, t2) returns.
C13_QueryMonotone ==
    QueryCalled =>
        \A t \in ThresholdInputs :
            LET other == Range(query(atoms, dimensionIndex,
                                     memCall.activeDimensions, t))
            IN  /\ t <= memCall.threshold => Range(memCall.result) \subseteq other
                /\ t >= memCall.threshold => other \subseteq Range(memCall.result)

\* a query that returns a record and that, with a lower threshold, returns
\* one more
C13_Witness ==
    /\ QueryCalled
    /\ memCall.result # <<>>
    /\ \E t \in ThresholdInputs :
           /\ t < memCall.threshold
           /\ Range(query(atoms, dimensionIndex, memCall.activeDimensions, t))
                  # Range(memCall.result)

\* C14: after any sequence of store calls, get(uid) returns the record of
\* the latest store call with that uid and every other uid keeps its
\* record; get of a uid never stored returns not-found and changes nothing;
\* all() holds exactly one record per uid stored.
C14_StoreGet ==
    /\ \A i, j \in 1..Len(atoms) : atoms[i].uid = atoms[j].uid => i = j
    /\ memCall.op = "store" =>
           /\ MapHas(atoms, memCall.atom.uid)
           /\ MapGet(atoms, memCall.atom.uid) = memCall.atom
           /\ StoredUids = {memCall.before[i].uid : i \in 1..Len(memCall.before)}
                               \cup {memCall.atom.uid}
           /\ \A uid \in StoredUids \ {memCall.atom.uid} :
                  MapGet(atoms, uid) = MapGet(memCall.before, uid)
    /\ memCall.op = "get" =>
           /\ atoms = memCall.before
           /\ dimensionIndex = memCall.indexBefore
           /\ memCall.found = HasAtom(memCall.uid)
           /\ memCall.result = IF HasAtom(memCall.uid) THEN <<get(memCall.uid)>>
                                ELSE <<>>
    /\ memCall.op = "all" =>
           /\ atoms = memCall.before
           /\ {memCall.result[i].uid : i \in 1..Len(memCall.result)} = StoredUids
           /\ Len(memCall.result) = Cardinality(StoredUids)

\* get returns the second version of a record stored twice, beside
\* another record
C14_Witness ==
    /\ memCall.op = "get"
    /\ memCall.found
    /\ memCall.result[1].version = 2
    /\ Len(atoms) >= 2

\* C15: store only adds index entries: a uid indexed under a key stays
\* indexed under it, also when the record is stored again with other tags,
\* so that a query on one key returns the current version of every record
\* indexed under it whose score meets the threshold.
C15_IndexOnlyGrows ==
    /\ memCall.op = "store" =>
           \A key \in DOMAIN memCall.indexBefore :
               /\ key \in DOMAIN dimensionIndex
               /\ Range(memCall.indexBefore[key]) \subseteq Range(dimensionIndex[key])
    /\ \A key \in DOMAIN dimensionIndex, t \in ThresholdInputs :
           \A uid \in Range(dimensionIndex[key]) :
               (HasAtom(uid) /\ Score(get(uid)) >= t) =>
                   get(uid) \in Range(query(atoms, dimensionIndex, <<key>>, t))

\* a query on a tag that the current version of a record no longer carries
\* returns that version
C15_Witness ==
    /\ QueryCalled
    /\ memCall.activeDimensions = <<"auth">>
    /\ \E i \in 1..Len(memCall.result) :
           /\ memCall.result[i].version = 2
           /\ "auth" \notin Range(memCall.result[i].topic_tags)

\* C16: query returns each record indexed under one of the keys once,
\* keeps the records whose score (0 when missing) is at least the
\* threshold, orders them by descending score, and puts records of equal
\* score in the order of their first insertion into the store, whatever the
\* order of the keys.
C16_QueryResult ==
    QueryCalled =>
        LET result == memCall.result
            indexed == UNION {Range(dimensionIndex[key]) :
                                 key \in Range(memCall.activeDimensions)
                                          \cap DOMAIN dimensionIndex}
        IN  /\ \A i, j \in 1..Len(result) : result[i].uid = result[j].uid => i = j
            /\ Range(result) = {get(uid) : uid \in {u \in indexed :
                                     Score(get(u)) >= memCall.threshold}}
            /\ \A i, j \in 1..Len(result) :
                   i < j =>
                       /\ Score(result[i]) >= Score(result[j])
                       /\ Score(result[i]) = Score(result[j]) =>
                              PositionOf(result[i].uid) < PositionOf(result[j].uid)

\* ========================================================================
\* Properties of edge discovery
\* ========================================================================

DiscoveryCalled == navCall.op = "discoverWormholes"

\* the edge objects the latest discovery pass created, from x to y, of a type
NewEdges(x, y, type) ==
    {w \in Range(getWormholes(wormholes, x)) :
        /\ w.id > 2 * navCall.createdBefore
        /\ w.to = y
        /\ w.type = type}

SharedTags(x, y) == Range(get(x).topic_tags) \cap Range(get(y).topic_tags)

\* C17: after one discovery pass two distinct stored records are joined by
\* a semantic edge exactly when their tag sets share at least 2 tags, and
\* then each of the two lists holds one such edge, of strength
\* |intersection| / max(|tagsA|, |tagsB|); tags {auth, login} and
\* {auth, login, oauth} give 2/3 (667 thousandths).
C17_SemanticDiscovery ==
    DiscoveryCalled =>
        \A x, y \in StoredUids :
            x # y =>
                LET shared == Cardinality(SharedTags(x, y))
                    largest == Max(Cardinality(Range(get(x).topic_tags)),
                                   Cardinality(Range(get(y).topic_tags)))
                IN  IF shared >= 2
                    THEN /\ Cardinality(NewEdges(x, y, "semantic")) = 1
                         /\ \A w \in NewEdges(x, y, "semantic") :
                                /\ w.strength = RoundDiv(1000 * shared, largest)
                                /\ w.bidirectional
                         /\ (Range(get(x).topic_tags) = {"auth", "login"}
                               /\ Range(get(y).topic_tags) = {"auth", "login", "oauth"})
                              => \A w \in NewEdges(x, y, "semantic") \cup
                                          NewEdges(y, x, "semantic") : w.strength = 667
                    ELSE NewEdges(x, y, "semantic") = {}

\* a pass over the records tagged {auth, login}, {auth, login, oauth} and
\* {auth}: the first two are joined, the third is not
C17_Witness ==
    /\ DiscoveryCalled
    /\ StoredUids = {"a", "b", "c"}
    /\ NewEdges("a", "b", "semantic") # {}
    /\ NewEdges("b", "a", "semantic") # {}
    /\ NewEdges("a", "c", "semantic") \cup NewEdges("c", "a", "semantic") = {}
    /\ Cardinality(SharedTags("a", "c")) = 1

\* C18: after one discovery pass two distinct records that both have a
\* time_start less than 24 hours apart are joined by exactly one temporal
\* edge, lying in one list only, of strength max(0, 1 - hours/24) (3 hours
\* give 0.875); records more than 24 hours apart, or one of which lacks
\* time_start, are joined by none.
C18_TemporalDiscovery ==
    DiscoveryCalled =>
        \A x, y \in StoredUids :
            x # y =>
                LET timeX == get(x).time_start
                    timeY == get(y).time_start
                    hours == Abs(timeX - timeY)
                    edges == NewEdges(x, y, "temporal") \cup NewEdges(y, x, "temporal")
                IN  /\ (timeX # -1 /\ timeY # -1 /\ hours < 24) =>
                           /\ Cardinality(edges) = 1
                           /\ \A w \in edges :
                                  /\ ~w.bidirectional
                                  /\ w.strength = Max(0, 1000 - RoundDiv(1000 * hours, 24))
                                  /\ hours = 3 => w.strength = 875
                    /\ (timeX = -1 \/ timeY = -1 \/ hours > 24) => edges = {}

\* a pass over records 3 hours apart, 27 hours apart and one without
\* time_start
C18_Witness ==
    /\ DiscoveryCalled
    /\ \E x, y, z \in StoredUids :
           /\ get(x).time_start # -1
           /\ get(y).time_start = get(x).time_start + 3
           /\ get(z).time_start = get(y).time_start + 27
           /\ \E w \in NewEdges(x, y, "temporal") \cup NewEdges(y, x, "temporal") :
                  w.strength = 875

\* C19: after one discovery pass, for every pair of stored records of which
\* one has the other's uid as parent_uid, there is a one-directional
\* hierarchical edge of strength 1.0 from the parent to the child,
\* whichever of the two was stored first.
C19_HierarchyAnyOrder ==
    DiscoveryCalled =>
        \A x, y \in StoredUids :
            (x # y /\ get(y).parent_uid = x) =>
                /\ \E w \in NewEdges(x, y, "hierarchical") :
                       w.strength = 1000 /\ ~w.bidirectional
                /\ NewEdges(y, x, "hierarchical") = {}

\* an effect of atomX contains, or is contained in, a precondition of atomY
CausalMatch(atomX, atomY) ==
    \E i \in 1..Len(atomX.effects), k \in 1..Len(atomY.preconditions) :
        \/ includes(atomY.preconditions[k], atomX.effects[i])
        \/ includes(atomX.effects[i], atomY.preconditions[k])

\* C20: after one discovery pass, for every ordered pair (X, Y) of distinct
\* stored records in which some effect of X contains or is contained in
\* some precondition of Y, there is a one-directional causal edge from X to
\* Y of strength 0.8 times X's causal confidence, whichever of the two was
\* stored first.
C20_CausalAnyOrder ==
    DiscoveryCalled =>
        \A x, y \in StoredUids :
            (x # y /\ CausalMatch(get(x), get(y))) =>
                \E w \in NewEdges(x, y, "causal") :
                    /\ w.strength = get(x).causal_confidence * 8
                    /\ ~w.bidirectional

\* ========================================================================
\* Properties of tick, of the deferral rule and of the other operations of
\* the controller
\* ========================================================================

\* C22: the controller starts in phase capture; a tick that passes a phase
\* leaves that phase as the current phase, as the phase of its result and
\* with that phase's admissible performers in its result; a tick without a
\* phase, gate, setSpin, adjustBudget, adjustDecay and the inspection calls
\* leave the current phase as it was.
C22_PhaseOnlyByTick ==
    /\ vbcCall.op = "new" => kernel.currentPhase = "capture"
    /\ (vbcCall.op = "tick" /\ vbcCall.arg # "none") =>
           /\ kernel.currentPhase = vbcCall.arg
           /\ vbcCall.result.phase = vbcCall.arg
           /\ vbcCall.result.admissiblePerformers =
                  TICK_PHASES[vbcCall.arg].admissiblePerformers
    /\ (vbcCall.op # "new" /\ ~(vbcCall.op = "tick" /\ vbcCall.arg # "none")) =>
           /\ kernel.currentPhase = vbcCall.before.currentPhase
           /\ vbcCall.op = "tick" =>
                  /\ vbcCall.result.phase = kernel.currentPhase
                  /\ vbcCall.result.admissiblePerformers =
                         TICK_PHASES[kernel.currentPhase].admissiblePerformers

\* a tick that passes commit to a controller an earlier tick left in clean
C22_Witness ==
    /\ vbcCall.op = "tick"
    /\ vbcCall.arg = "commit"
    /\ vbcCall.before.currentPhase = "clean"
    /\ kernel.currentPhase = "commit"

\* C23: every tick, with or without a phase, leaves on each axis the load it
\* found multiplied once by the decay of the axis, adds 1 to the tick counter
\* and returns the loads of all axes after the decay; no other operation
\* changes the tick counter.
C23_TickDecaysOnce ==
    /\ vbcCall.op = "new" => kernel.tickCount = 0
    /\ vbcCall.op = "tick" =>
           /\ \A a \in AxisNames :
                  LET old == vbcCall.before.axes[a]
                  IN  /\ kernel.axes[a].load = RoundDiv(old.load * old.decay, 100)
                      /\ vbcCall.result.loads[a] = kernel.axes[a].load
           /\ DOMAIN vbcCall.result.loads = AxisNames
           /\ kernel.tickCount = vbcCall.before.tickCount + 1
           /\ vbcCall.result.tickCount = kernel.tickCount
    /\ vbcCall.op \notin {"new", "tick"} =>
           kernel.tickCount = vbcCall.before.tickCount

\* a tick without a phase that found a loaded axis and lowered its load
C23_Witness ==
    /\ vbcCall.op = "tick"
    /\ vbcCall.arg = "none"
    /\ \E a \in AxisNames :
           /\ vbcCall.before.axes[a].load > 0
           /\ kernel.axes[a].load < vbcCall.before.axes[a].load
           /\ vbcCall.result.loads[a] = kernel.axes[a].load

\* the axes of the deltas admitted before position i of the input
AxesAdmittedBefore(i) ==
    {vbcCall.result.admitted[j].axis :
        j \in {k \in 1..Len(vbcCall.result.admitted) : vbcCall.result.admitted[k].id < i}}

\* C24: in a gate call a deferred delta is on an axis no earlier delta of
\* the call was admitted on, and the axes admitted before it number exactly
\* maxConcurrentAxes; the returned activeAxes is the set of the axes of the
\* admitted deltas and has at most maxConcurrentAxes members.
C24_DeferralRule ==
    GateCalled =>
        /\ \A i \in 1..Len(vbcCall.result.deferred) :
               LET d == vbcCall.result.deferred[i]
               IN  /\ d.axis \notin AxesAdmittedBefore(d.id)
                   /\ Cardinality(AxesAdmittedBefore(d.id)) = kernel.maxConcurrentAxes
        /\ vbcCall.result.activeAxes =
               {vbcCall.result.admitted[i].axis : i \in 1..Len(vbcCall.result.admitted)}
        /\ Cardinality(vbcCall.result.activeAxes) <= kernel.maxConcurrentAxes

\* a call that deferred a delta on a new axis and, with as many axes active
\* as allowed, admitted a second delta on the axis already active
C24_Witness ==
    /\ GateCalled
    /\ Len(vbcCall.result.deferred) > 0
    /\ \E i, j \in 1..Len(vbcCall.result.admitted) :
           /\ i < j
           /\ vbcCall.result.admitted[i].axis = vbcCall.result.admitted[j].axis
    /\ Cardinality(vbcCall.result.activeAxes) = kernel.maxConcurrentAxes

AdmittedIncreases(a) ==
    SelectSeq(vbcCall.result.admitted,
              LAMBDA d : d.axis = a /\ d.direction = "increase")

\* C26: a gate call changes the load of each axis by the magnitudes of the
\* admitted deltas of direction increase on that axis and by nothing else: a
\* delta of direction decrease changes no load.
C26_OnlyIncreaseLoads ==
    GateCalled =>
        \A a \in AxisNames :
            kernel.axes[a].load =
                vbcCall.before.axes[a].load + SumMagnitudes(AdmittedIncreases(a))

\* C36: in every state of the gate every axis has a decay above 0 and at
\* most 1 and a budget from 0 to 1.
C36_DecayAndBudgetRanges ==
    \A a \in AxisNames :
        /\ kernel.axes[a].decay > 0
        /\ kernel.axes[a].decay <= 100
        /\ kernel.axes[a].budget >= 0
        /\ kernel.axes[a].budget <= 1000

\* the deltas of the latest gate call that were admitted on the axis
AdmittedOn(a) ==
    {i \in 1..Len(vbcCall.result.admitted) : vbcCall.result.admitted[i].axis = a}

\* C37: right after a gate call, every axis on which the call admitted a
\* delta has a load of at most its budget times the multiplier of the
\* current phase.
C37_AdmissionKeepsBudget ==
    GateCalled =>
        \A a \in AxisNames :
            AdmittedOn(a) # {} =>
                10 * kernel.axes[a].load
                    <= kernel.axes[a].budget * CapMultiplier(kernel.currentPhase, a)

\* a call that admitted two deltas on one axis, filled its effective budget
\* with them and throttled a third delta on that axis
C37_Witness ==
    /\ GateCalled
    /\ \E a \in AxisNames :
           /\ Cardinality(AdmittedOn(a)) = 2
           /\ 10 * kernel.axes[a].load
                  = kernel.axes[a].budget * CapMultiplier(kernel.currentPhase, a)
           /\ \E i \in 1..Len(vbcCall.result.throttled) :
                  vbcCall.result.throttled[i].axis = a

\* C40: right after a discovery pass, another pass over the unchanged store
\* leaves every adjacency list as it is, and so leaves at most one edge of
\* a type from one record to another.
C40_DiscoveryIdempotent ==
    DiscoveryCalled =>
        LET again == discoverWormholes([wormholes |-> wormholes, created |-> created],
                                       atoms).wormholes
        IN  /\ again = wormholes
            /\ \A uid \in DOMAIN again :
                   \A i, j \in 1..Len(again[uid]) :
                       (/\ again[uid][i].type = again[uid][j].type
                        /\ again[uid][i].to = again[uid][j].to) => i = j

\* the calls of the latest request cycle that the stated cycle names
CycleCalls ==
    SelectSeq(orchCall.calls,
              LAMBDA c : c \in {CallOn("vbc", "tick"), CallOn("vbc", "gate"),
                                CallOn("memory", "query"), CallOn("memory", "store"),
                                CallOn("wormholeNetwork", "navigate")})

\* C35: in every request cycle the coordinator calls tick on the gate,
\* then query on the store or navigate on the graph, then gate on the gate,
\* then store on the store, each once and in that order.
C35_CycleOrder ==
    orchCall.op = "process" =>
        /\ Len(CycleCalls) = 4
        /\ CycleCalls[1] = CallOn("vbc", "tick")
        /\ CycleCalls[2] \in {CallOn("memory", "query"),
                              CallOn("wormholeNetwork", "navigate")}
        /\ CycleCalls[3] = CallOn("vbc", "gate")
        /\ CycleCalls[4] = CallOn("memory", "store")
====
